---- MODULE Spec2Model ----
(***************************************************************************)
(* Synchronization engine of PMDBot: the deduplicated queue                *)
(* (queue_manager.py), the rate-limit governor and retry bookkeeping       *)
(* (scheduler.py), the fast loop process_queue_batch and the resolution    *)
(* pipeline process_single_user, driven by the fast loop and by the        *)
(* /confirm command (commands.py), and the reconciler update_user_info     *)
(* with the role mappings of nation_role_manager.py and                    *)
(* town_role_manager.py.                                                   *)
(*                                                                         *)
(* Time is counted in minutes, from the present (now = 0): the passing of  *)
(* a minute lowers every stored timestamp by one.  A coroutine is split    *)
(* into steps at its network calls and sleeps; everything between two such *)
(* suspension points is one atomic step (single-threaded asyncio).         *)
(***************************************************************************)
EXTENDS Integers, Sequences, FiniteSets, TLC

\* ---------------------------------------------------------------- bounds
NumSubjects == 3

\* ------------------------------------------------------ program constants
MAX_RETRY_COUNT == 3
RATE_LIMIT_MINUTES == 5
batch_size == 3

BASE_NATION == "Red_Mafia"
OTHER_NATION == "Blue"
\* a polity on the alliance list
ALLY_NATION == "Ally"
\* the polity name the upstream gives to residents without polity
UNAFFILIATED == "unaffiliated"
\* the placeholder process_single_user puts for an absent polity or settlement
NO_INFO == "none"

\* alliance_manager: the polities on the alliance list
Alliances == {ALLY_NATION}

\* settlements of the upstream; TOWN_MAPPED has a role mapping in
\* town_role_manager, TOWN_OTHER has none
TOWN_MAPPED == "Alpha"
TOWN_OTHER == "Beta"
MappedTowns == {TOWN_MAPPED}

\* a role of the guild that no configuration of the engine refers to
UNMANAGED_ROLE == "vip"

\* the channels of the reporting collaborator, and the throttle notice
\* (posted to both channels, naming no subject)
SUCCESS_CHANNEL == "success"
FAILURE_CHANNEL == "failure"
NOTICE == "notice"

Subjects == 1..NumSubjects
Runners == {"loop", "cmd"}

\* rate_limit_until = None
NoTime == -1
\* datetime.now(): timestamps are minutes counted from the present
now == 0
\* member.nick = None
NoNick == [name |-> 0, label |-> ""]
\* no subject bound to a runner
NoUser == 0

\* subjects the environment may put on / take off the exemption list,
\* may let leave the guild, and that use the /confirm command
ExemptCandidates == {2}
LeaveCandidates == {2}
CmdUsers == {1}
\* subjects the admin command enqueues in the specification with the command layer
AddCandidates == {1, 2}

\* the week of the model: days, hours of a day, minutes of an hour
DaysPerWeek == 2
HoursPerDay == 2
MinutesPerHour == 2
\* the weekly trigger of the configuration, inside the week of the model
AUTO_EXECUTION_DAY == 1
AUTO_EXECUTION_HOUR == 1
AUTO_EXECUTION_MINUTE == 0
\* execute_auto_roles tasks counted per weekly slot
MaxFired == 2
\* the members of the roles of auto_role_manager.get_roles(), in role order
AutoRoleCohorts == <<{2}, {1, 2}>>

VARIABLES
    queue,                \* QueueManager.queue
    processing,           \* QueueManager.processing
    rate_limit_detected,  \* scheduler.rate_limit_detected
    rate_limit_until,     \* scheduler.rate_limit_until
    retry_counts,         \* scheduler.retry_counts (dict: subject -> count)
    tick_pc,              \* position of process_queue_batch
    processed_users,      \* local list of process_queue_batch
    idx,                  \* position of the for loop over processed_users
    queue_size_before,    \* local of process_queue_batch
    run,                  \* per caller: position, subject and reports sent of process_single_user
    roles,                \* member.roles, by role name
    nick,                 \* member.nick
    nation_roles,         \* NationRoleManager._nation_roles (mapped polity names)
    db_users,             \* subjects with a cached identity (uuid and name)
    exceptions,           \* ExceptionManager._exceptions
    members,              \* subjects that are members of the guild
    callsign,             \* position and subject of the callsign command
    status,               \* the last answer of get_scheduler_info
    clock,                \* datetime.now(): day of the week, hour, minute
    scheduler_running,    \* queue_processor_loop / auto_roles_checker .is_running()
    check_wait,           \* minutes until the next iteration of auto_roles_checker
    fired,                \* execute_auto_roles tasks created in the current weekly slot
    bulk,                 \* execute_auto_roles / manual_execute_auto_roles in progress:
                          \* position, added_count, subjects dequeued since it started
    call                  \* a call of a text function: its arguments and its result

vars == <<queue, processing, rate_limit_detected, rate_limit_until,
          retry_counts, tick_pc, processed_users, idx,
          queue_size_before, run, roles, nick, nation_roles, db_users,
          exceptions, members, callsign, status, clock, scheduler_running,
          check_wait, fired, bulk, call>>

gov == <<rate_limit_detected, rate_limit_until>>
platform == <<roles, nick, nation_roles>>
tick == <<tick_pc, processed_users, idx, queue_size_before, processing>>
env == <<exceptions, members, callsign, status>>
wall == <<clock, scheduler_running, check_wait, fired>>
slow == <<wall, bulk>>

\* ------------------------------------------------------------ sequences
Min(a, b) == IF a < b THEN a ELSE b

\* ---------------------------------------------------------- QueueManager
is_user_in_queue(q, user_id) == \E i \in 1..Len(q) : q[i] = user_id

\* add_user: the queue after the call
add_user_mut(q, user_id) == Append(q, user_id)
add_user(q, user_id) ==
    IF ~is_user_in_queue(q, user_id) THEN Append(q, user_id) ELSE q

\* add_user: the value returned
add_user_result_mut(q, user_id) == TRUE
add_user_result(q, user_id) == ~is_user_in_queue(q, user_id)

\* get_next: the value returned (NoUser for None) and the queue after it
get_next_mut(q) == IF q # <<>> THEN q[Len(q)] ELSE NoUser
get_next(q) == IF q # <<>> THEN Head(q) ELSE NoUser
get_next_queue(q) == IF q # <<>> THEN Tail(q) ELSE q

get_queue_size(q) == Len(q)

\* ------------------------------------------------------------- governor
\* is_rate_limited: the value returned when called at time t
is_rate_limited_mut(det, until, t) == FALSE
is_rate_limited(det, until, t) ==
    IF ~det THEN FALSE
    ELSE IF t >= until THEN FALSE
    ELSE TRUE

\* is_rate_limited: the globals after the call
is_rate_limited_detected(det, until, t) ==
    IF det /\ t >= until THEN FALSE ELSE det
is_rate_limited_until(det, until, t) ==
    IF det /\ t >= until THEN NoTime ELSE until

\* handle_rate_limit: rate_limit_until after the call at time t
handle_rate_limit_until_mut(t) == t
handle_rate_limit_until(t) == t + RATE_LIMIT_MINUTES

\* ---------------------------------------------------------- retry state
retry_get(rc, user_id) == IF user_id \in DOMAIN rc THEN rc[user_id] ELSE 0

increment_retry_count_mut(rc, user_id) ==
    [x \in DOMAIN rc \cup {user_id} |->
        IF x = user_id THEN retry_get(rc, user_id) + 2 ELSE rc[x]]
increment_retry_count(rc, user_id) ==
    [x \in DOMAIN rc \cup {user_id} |->
        IF x = user_id THEN retry_get(rc, user_id) + 1 ELSE rc[x]]

clear_retry_count_mut(rc, user_id) == rc
clear_retry_count(rc, user_id) ==
    [x \in DOMAIN rc \ {user_id} |-> rc[x]]

should_retry_mut(rc, user_id) == retry_get(rc, user_id) <= MAX_RETRY_COUNT
should_retry(rc, user_id) == retry_get(rc, user_id) < MAX_RETRY_COUNT

\* ------------------------------------------------------------ reconciler
\* is_friendly: the nation is the reference polity or on the alliance list
\* (comparison by name; the comparison by UUID gives the same answer for an
\* upstream that names and numbers its polities consistently)
is_friendly_mut(nation) == nation = OTHER_NATION
is_friendly(nation) == nation = BASE_NATION \/ nation \in Alliances

\* create_nickname for names that fit into the platform limit
create_nickname(mc_id, nation, current_nickname) ==
    IF nation = BASE_NATION /\ current_nickname # NoNick
       /\ current_nickname.name = mc_id
    THEN [name |-> mc_id, label |-> current_nickname.label]
    ELSE [name |-> mc_id, label |-> nation]

\* the polity the upstream reports for a subject
NationOf(user_id) == IF user_id = 1 THEN BASE_NATION ELSE OTHER_NATION

\* the external identity (display name) of a subject
McName(user_id) == user_id

\* the settlement of a subject in the upstream's fixed world
TownOf(user_id) == TOWN_MAPPED

\* update_user_info, settlement roles: get_all_mappings() is keyed by polity
\* UUID with dictionaries as values, so guild.get_role finds no role to
\* remove, and get_role_id(town) lacks its second argument; the except
\* clause swallows the TypeError and the member's roles stay as they are
town_roles_step(held, town) == held

\* create_nation_role_if_needed: the mapping after the call (the role is
\* looked up by id, then by name, then created, and mapped in any case)
create_nation_role_if_needed(mapped, nation) == mapped \cup {nation}

\* update_user_info: the per-polity role added (none for UNAFFILIATED)
nation_role_step(held, nation) ==
    IF nation # UNAFFILIATED THEN held \cup {nation} ELSE held

\* update_user_info: the roles of the member after the call
update_user_info_roles_mut(held, nation, town) ==
    IF is_friendly(nation) THEN {"citizen", nation} ELSE {"foreign", nation}
update_user_info_roles(held, nation, town) ==
    LET after_town == town_roles_step(held, town)
    IN  IF is_friendly(nation)
        THEN nation_role_step((after_town \cup {"citizen"}) \ {"foreign"}, nation)
        ELSE nation_role_step((after_town \cup {"foreign"}) \ {"citizen"}, nation)

\* update_user_info: NationRoleManager._nation_roles after the call
update_user_info_mapping(mapped, nation) ==
    IF nation # UNAFFILIATED THEN create_nation_role_if_needed(mapped, nation)
    ELSE mapped

\* the three platform mutation calls of update_user_info
MutationKinds == {"edit", "add_roles", "remove_roles"}

\* update_user_info: the platform mutation calls issued for a member.  The
\* nickname is edited only when the computed nickname differs from the
\* displayed one; a role is added only when the member does not hold it and
\* removed only when the member holds it
update_user_info_calls_mut(held, current_nickname, mc_id, nation, town) ==
    LET target == update_user_info_roles(held, nation, town)
    IN  {<<"edit", "">>}
        \cup {<<"add_roles", x>> : x \in target \ held}
        \cup {<<"remove_roles", x>> : x \in held \ target}
update_user_info_calls(held, current_nickname, mc_id, nation, town) ==
    LET new_nickname == create_nickname(mc_id, nation, current_nickname)
        target == update_user_info_roles(held, nation, town)
    IN  (IF current_nickname # new_nickname THEN {<<"edit", "">>} ELSE {})
        \cup {<<"add_roles", x>> : x \in target \ held}
        \cup {<<"remove_roles", x>> : x \in held \ target}

\* the roles of the member once the calls are answered; a call of a kind in
\* forbidden raises discord.Forbidden and changes nothing
roles_after_calls(held, calls, forbidden) ==
    (held \cup {c[2] : c \in {x \in calls : x[1] = "add_roles"
                                            /\ "add_roles" \notin forbidden}})
    \ {c[2] : c \in {x \in calls : x[1] = "remove_roles"
                                   /\ "remove_roles" \notin forbidden}}

\* the displayed nickname once the calls are answered
nick_after_calls(current_nickname, new_nickname, calls, forbidden) ==
    IF <<"edit", "">> \in calls /\ "edit" \notin forbidden
    THEN new_nickname ELSE current_nickname

\* update_user_info: the changes list it returns, one line for each call
\* made, telling whether the call went through
update_user_info_changes_mut(calls, forbidden) ==
    {[call |-> c, ok |-> TRUE] : c \in {x \in calls : x[1] \notin forbidden}}
update_user_info_changes(calls, forbidden) ==
    {[call |-> c, ok |-> c[1] \notin forbidden] : c \in calls}

\* the except branch for an unlinked subject: citizen role, foreign role and
\* every mapped polity role are removed; the loop over the settlement
\* mapping meets the same dictionaries as in update_user_info and removes
\* nothing
clear_managed_roles_mut(held, mapped) == held \ {"citizen", "foreign"}
clear_managed_roles(held, mapped) == (held \ {"citizen", "foreign"}) \ mapped

\* the report of a resolved subject: with the polity or the settlement
\* missing a warning goes to the failure channel; otherwise the success
\* report is being built when get_role_id(town) raises TypeError, the except
\* branch raises it again while building the failure report, and the
\* exception leaves process_single_user with nothing sent
success_reports(nation, town) ==
    IF nation \in {NO_INFO, UNAFFILIATED} \/ town \in {NO_INFO, UNAFFILIATED}
    THEN {FAILURE_CHANNEL}
    ELSE {}

\* ------------------------------------------------------------------ Init
IdleRun == [pc |-> "idle", user |-> NoUser, reports |-> {}, changes |-> {}]

\* get_scheduler_info has not been called
NoStatus == [rate_limit_detected |-> FALSE, rate_limit_until |-> NoTime,
             retry_queue_size |-> 0]

\* the callsign command is not running
IdleCallsign == [pc |-> "idle", user |-> NoUser]

\* no bulk enqueue is running
NoCall == [fn |-> "none"]
IdleBulk == [pc |-> "idle", role |-> 1, added_count |-> 0, taken |-> {}]

\* setup_scheduler has started both loops; the first iteration of
\* auto_roles_checker is due at once
SchedulerStarted ==
    /\ scheduler_running = TRUE
    /\ check_wait = 0
    /\ fired = 0
    /\ bulk = IdleBulk

Init ==
    /\ queue = <<>>
    /\ processing = FALSE
    /\ rate_limit_detected = FALSE
    /\ rate_limit_until = NoTime
    /\ retry_counts = <<>>
    /\ tick_pc = "idle"
    /\ processed_users = <<>>
    /\ idx = 1
    /\ queue_size_before = 0
    /\ run = [r \in Runners |-> IdleRun]
    /\ roles = [u \in Subjects |-> {}]
    /\ nick = [u \in Subjects |-> NoNick]
    /\ nation_roles = {}
    /\ db_users = {}
    /\ exceptions = {}
    /\ members = Subjects
    /\ clock = [day |-> 0, hour |-> 0, minute |-> 0]
    /\ SchedulerStarted
    /\ call = NoCall
    /\ callsign = IdleCallsign
    /\ status = NoStatus

\* --------------------------------------------------------- environment
\* a minute passes: the stored timestamp moves one minute closer to now;
\* timestamps in the past are all alike and kept at now
AdvanceTime ==
    /\ rate_limit_until # NoTime
    /\ rate_limit_until > now
    /\ rate_limit_until' = rate_limit_until - 1
    /\ UNCHANGED <<queue, retry_counts, rate_limit_detected, tick, run,
                   platform, db_users, env, slow, call>>

\* on_member_join: a non-exempt new member is put into the queue
MemberJoin(u) ==
    /\ u \notin members
    /\ members' = members \cup {u}
    /\ queue' = IF u \in exceptions THEN queue
                ELSE IF is_user_in_queue(queue, u) THEN queue
                ELSE add_user(queue, u)
    /\ UNCHANGED <<retry_counts, gov, tick, run, platform, db_users, exceptions, callsign, status, slow, call>>

\* a member leaves the guild; the platform forgets its roles and nickname
MemberLeave(u) ==
    /\ u \in members
    /\ \A r \in Runners : run[r].user # u
    /\ callsign.user # u
    /\ members' = members \ {u}
    /\ roles' = [roles EXCEPT ![u] = {}]
    /\ nick' = [nick EXCEPT ![u] = NoNick]
    /\ UNCHANGED <<queue, retry_counts, gov, tick, run, nation_roles, db_users,
                   exceptions, callsign, status, slow, call>>

\* _handle_queue_processing: an admin command enqueues a member
CommandAdd(u) ==
    /\ u \in members
    /\ queue' = add_user(queue, u)
    /\ UNCHANGED <<retry_counts, gov, tick, run, platform, db_users, env, slow, call>>

\* execute_auto_roles / manual_execute_auto_roles: every non-exempt member
\* of the auto role is offered to add_user, in member order
RECURSIVE AddAll(_, _)
AddAll(q, S) ==
    IF S = {} THEN q
    ELSE LET u == CHOOSE x \in S : \A y \in S : x <= y
         IN  AddAll(add_user(q, u), S \ {u})

AutoRoleMembers == {1, 2}

BulkEnqueue ==
    /\ queue' = AddAll(queue, (AutoRoleMembers \cap members) \ exceptions)
    /\ queue' # queue
    /\ UNCHANGED <<retry_counts, gov, tick, run, platform, db_users, env, slow, call>>

\* the queue-reset command
ClearQueue ==
    /\ queue # <<>>
    /\ queue' = <<>>
    /\ UNCHANGED <<retry_counts, gov, tick, run, platform, db_users, env, slow, call>>

\* ExceptionManager.add_exception / remove_exception
AddException(u) ==
    /\ u \notin exceptions
    /\ exceptions' = exceptions \cup {u}
    /\ UNCHANGED <<queue, retry_counts, gov, tick, run, platform, db_users, members, callsign, status, slow, call>>

RemoveException(u) ==
    /\ u \in exceptions
    /\ exceptions' = exceptions \ {u}
    /\ UNCHANGED <<queue, retry_counts, gov, tick, run, platform, db_users, members, callsign, status, slow, call>>

\* -------------------------------------------------- process_single_user
Terminal == {"retry", "exhausted", "notlinked", "error", "success",
             "skipped", "nomember"}

IdentityResponses == {"ok", "empty", "429", "err", "timeout"}
ProfileResponses == {"ok", "429", "err", "empty", "timeout"}

\* the upstream's world: the subjects linked to an external account; the
\* identity lookup of any other subject, when it is answered, has empty data
Linked == {1}
IdentityAnswers(user_id) ==
    IF user_id \in Linked THEN IdentityResponses \ {"empty"}
    ELSE IdentityResponses \ {"ok"}

\* get_user_info: the row of the subject holds a uuid (add_or_update_user
\* is only ever called with a uuid and a name, so it then holds a name too)
cached_uuid_mut(db, user_id) == FALSE
cached_uuid(db, user_id) == user_id \in db

\* entry of process_single_user up to its first network call: exemption
\* check, member lookup, identity cache lookup
Begin_mut(user_id) ==
    IF user_id \notin members
    THEN [pc |-> "nomember", user |-> user_id, reports |-> {FAILURE_CHANNEL},
          changes |-> {}]
    ELSE IF cached_uuid(db_users, user_id)
    THEN [pc |-> "prof_wait", user |-> user_id, reports |-> {}, changes |-> {}]
    ELSE [pc |-> "id_wait", user |-> user_id, reports |-> {}, changes |-> {}]
Begin(user_id) ==
    IF user_id \in exceptions
    THEN [pc |-> "skipped", user |-> user_id, reports |-> {}, changes |-> {}]
    ELSE IF user_id \notin members
    THEN [pc |-> "nomember", user |-> user_id, reports |-> {FAILURE_CHANNEL},
          changes |-> {}]
    ELSE IF cached_uuid(db_users, user_id)
    THEN [pc |-> "prof_wait", user |-> user_id, reports |-> {}, changes |-> {}]
    ELSE [pc |-> "id_wait", user |-> user_id, reports |-> {}, changes |-> {}]

\* the 429 branch of a lookup: handle_rate_limit, the throttle notice,
\* increment_retry_count, should_retry, add_user / clear_retry_count;
\* exhausted_report is the set of reports the branch sends when the retry
\* budget is used up
Throttled_mut(r, exhausted_report) ==
    LET user_id == run[r].user
        counted == increment_retry_count(retry_counts, user_id)
    IN  /\ rate_limit_detected' = TRUE
        /\ rate_limit_until' = handle_rate_limit_until(now)
        /\ IF should_retry(counted, user_id)
           THEN /\ queue' = add_user(queue, user_id)
                /\ retry_counts' = retry_counts
                /\ run' = [run EXCEPT ![r].pc = "retry",
                                      ![r].reports = @ \cup {NOTICE}]
           ELSE /\ queue' = queue
                /\ retry_counts' = clear_retry_count(counted, user_id)
                /\ run' = [run EXCEPT ![r].pc = "exhausted",
                                      ![r].reports = @ \cup {NOTICE} \cup exhausted_report]
        /\ UNCHANGED <<platform, db_users>>
Throttled(r, exhausted_report) ==
    LET user_id == run[r].user
        counted == increment_retry_count(retry_counts, user_id)
    IN  /\ rate_limit_detected' = TRUE
        /\ rate_limit_until' = handle_rate_limit_until(now)
        /\ IF should_retry(counted, user_id)
           THEN /\ queue' = add_user(queue, user_id)
                /\ retry_counts' = counted
                /\ run' = [run EXCEPT ![r].pc = "retry",
                                      ![r].reports = @ \cup {NOTICE}]
           ELSE /\ queue' = queue
                /\ retry_counts' = clear_retry_count(counted, user_id)
                /\ run' = [run EXCEPT ![r].pc = "exhausted",
                                      ![r].reports = @ \cup {NOTICE} \cup exhausted_report]
        /\ UNCHANGED <<platform, db_users>>

\* the except branch: clear_retry_count; with clear_managed (the message of
\* the exception is one of the two "not linked" messages) the nickname is
\* reset and the managed roles are removed; the failure report is sent
Failed_mut(r, outcome, clear_managed) ==
    LET user_id == run[r].user
    IN  /\ retry_counts' = increment_retry_count(retry_counts, user_id)
        /\ queue' = add_user(queue, user_id)
        /\ run' = [run EXCEPT ![r].pc = outcome,
                              ![r].reports = @ \cup {FAILURE_CHANNEL}]
        /\ UNCHANGED <<gov, platform, db_users>>
Failed(r, outcome, clear_managed) ==
    LET user_id == run[r].user
    IN  /\ retry_counts' = clear_retry_count(retry_counts, user_id)
        /\ roles' = IF clear_managed
                    THEN [roles EXCEPT ![user_id] =
                             clear_managed_roles(roles[user_id], nation_roles)]
                    ELSE roles
        /\ nick' = IF clear_managed THEN [nick EXCEPT ![user_id] = NoNick] ELSE nick
        /\ run' = [run EXCEPT ![r].pc = outcome,
                              ![r].reports = @ \cup {FAILURE_CHANNEL}]
        /\ UNCHANGED <<queue, gov, nation_roles, db_users>>

\* the answer to the identity lookup arrives
IdentityResponse(r, resp) ==
    /\ run[r].pc = "id_wait"
    /\ CASE resp = "429" -> Throttled(r, {FAILURE_CHANNEL})
         [] resp = "err" -> Failed(r, "error", TRUE)
         [] resp = "timeout" -> Failed(r, "error", FALSE)
         [] resp = "empty" -> Failed(r, "notlinked", TRUE)
         [] OTHER -> /\ run' = [run EXCEPT ![r].pc = "sleep5"]
                     /\ UNCHANGED <<queue, gov, retry_counts, platform, db_users>>
    /\ UNCHANGED <<tick, env, slow, call>>

\* the inter-step delay is over: the profile lookup is sent
StartProfile(r) ==
    /\ run[r].pc = "sleep5"
    /\ run' = [run EXCEPT ![r].pc = "prof_wait"]
    /\ UNCHANGED <<queue, gov, retry_counts, tick, platform, db_users, env, slow, call>>

\* the profile lookup answered 200 with data: update_user_info runs against
\* a platform that refuses the mutation calls of the kinds in forbidden,
\* then clear_retry_count, the cache write and the report
Resolved(r, nation, town, forbidden) ==
    LET user_id == run[r].user
        new_nickname == create_nickname(McName(user_id), nation, nick[user_id])
        calls == update_user_info_calls(roles[user_id], nick[user_id],
                                        McName(user_id), nation, town)
    IN  /\ retry_counts' = clear_retry_count(retry_counts, user_id)
        /\ nick' = [nick EXCEPT ![user_id] =
                      nick_after_calls(nick[user_id], new_nickname, calls, forbidden)]
        /\ roles' = [roles EXCEPT ![user_id] =
                      roles_after_calls(roles[user_id], calls, forbidden)]
        /\ nation_roles' = update_user_info_mapping(nation_roles, nation)
        /\ db_users' = db_users \cup {user_id}
        /\ run' = [run EXCEPT ![r].pc = "success",
                              ![r].reports = @ \cup success_reports(nation, town),
                              ![r].changes = update_user_info_changes(calls, forbidden)]
        /\ UNCHANGED <<queue, gov>>

\* the answer to the profile lookup arrives; nation and town are the
\* polity and the settlement of the answer (NO_INFO when absent); the
\* platform accepts every mutation call
ProfileResponse(r, resp, nation, town) ==
    /\ run[r].pc = "prof_wait"
    /\ CASE resp = "429" -> Throttled(r, {})
         [] resp \in {"err", "empty", "timeout"} -> Failed(r, "error", FALSE)
         [] OTHER -> Resolved(r, nation, town, {})
    /\ UNCHANGED <<tick, env, slow, call>>

\* -------------------------------------------------- the /confirm command
CmdConfirm(u) ==
    /\ run["cmd"].pc = "idle"
    /\ u \in members
    /\ run' = [run EXCEPT !["cmd"] = Begin(u)]
    /\ UNCHANGED <<queue, gov, retry_counts, tick, platform, db_users, env, slow, call>>

CmdReturn ==
    /\ run["cmd"].pc \in Terminal
    /\ run' = [run EXCEPT !["cmd"] = IdleRun]
    /\ UNCHANGED <<queue, gov, retry_counts, tick, platform, db_users, env, slow, call>>

\* ------------------------------------------------- the callsign command
\* the text the member chose
CALLSIGN == "callsign"

\* the command has stored the callsign and sends its own identity lookup
CallsignCommand(u) ==
    /\ callsign.pc = "idle"
    /\ u \in members
    /\ callsign' = [pc |-> "id_wait", user |-> u]
    /\ UNCHANGED <<queue, gov, retry_counts, tick, run, platform, db_users,
                   exceptions, members, status, slow, call>>

\* the identity lookup of the command is answered: with an identity in the
\* answer the row of the member is written and the resident lookup is
\* sent; any other answer ends the lookups
CallsignIdentity(resp) ==
    /\ callsign.pc = "id_wait"
    /\ resp \in IdentityAnswers(callsign.user)
    /\ IF resp = "ok"
       THEN /\ db_users' = db_users \cup {callsign.user}
            /\ callsign' = [callsign EXCEPT !.pc = "res_wait"]
       ELSE /\ callsign' = IdleCallsign
            /\ UNCHANGED db_users
    /\ UNCHANGED <<queue, gov, retry_counts, tick, run, platform,
                   exceptions, members, status, slow, call>>

\* the resident lookup is answered: with a settlement in the answer the
\* settlement lookup is sent
CallsignResident(resp) ==
    /\ callsign.pc = "res_wait"
    /\ callsign' = IF resp = "ok" THEN [callsign EXCEPT !.pc = "town_wait"]
                   ELSE IdleCallsign
    /\ UNCHANGED <<queue, gov, retry_counts, tick, run, platform, db_users,
                   exceptions, members, status, slow, call>>

\* the settlement lookup is answered: a member of the reference polity gets
\* the nickname with the callsign
CallsignTown(resp, nation) ==
    /\ callsign.pc = "town_wait"
    /\ nick' = IF resp = "ok" /\ nation = BASE_NATION
               THEN [nick EXCEPT ![callsign.user] =
                        [name |-> McName(callsign.user), label |-> CALLSIGN]]
               ELSE nick
    /\ callsign' = IdleCallsign
    /\ UNCHANGED <<queue, gov, retry_counts, tick, run, roles, nation_roles,
                   db_users, exceptions, members, status, slow, call>>

CallsignResponses == {"ok", "err"}

\* -------------------------------------------------------- status query
\* get_scheduler_info: the governor after the call
get_scheduler_info_gov_mut(det, until, t) ==
    <<is_rate_limited_detected(det, until, t), is_rate_limited_until(det, until, t)>>
get_scheduler_info_gov(det, until, t) == <<det, until>>

\* get_scheduler_info: the module globals are read into the answer
GetSchedulerInfo ==
    /\ status' = [rate_limit_detected |-> rate_limit_detected,
                  rate_limit_until |-> rate_limit_until,
                  retry_queue_size |-> Cardinality(DOMAIN retry_counts)]
    /\ rate_limit_detected' =
          get_scheduler_info_gov(rate_limit_detected, rate_limit_until, now)[1]
    /\ rate_limit_until' =
          get_scheduler_info_gov(rate_limit_detected, rate_limit_until, now)[2]
    /\ UNCHANGED <<queue, retry_counts, tick, run, platform, db_users,
                   exceptions, members, callsign, slow, call>>

\* -------------------------------------------------- process_queue_batch
\* the for loop of get_next calls: the users taken and the queue left
RECURSIVE TakeBatch(_, _)
TakeBatch(q, n) ==
    IF n = 0 \/ get_next(q) = NoUser THEN <<>>
    ELSE <<get_next(q)>> \o TakeBatch(get_next_queue(q), n - 1)

RECURSIVE LeftAfterBatch(_, _)
LeftAfterBatch(q, n) ==
    IF n = 0 \/ get_next(q) = NoUser THEN q
    ELSE LeftAfterBatch(get_next_queue(q), n - 1)

\* a tick of the fast loop, up to the start of the for loop over the batch
TickStart ==
    /\ tick_pc = "idle"
    /\ IF is_rate_limited(rate_limit_detected, rate_limit_until, now)
       THEN /\ tick_pc' = "skipped"
            /\ UNCHANGED <<queue, gov, processed_users, idx,
                           queue_size_before, processing>>
       ELSE /\ rate_limit_detected' =
                  is_rate_limited_detected(rate_limit_detected, rate_limit_until, now)
            /\ rate_limit_until' =
                  is_rate_limited_until(rate_limit_detected, rate_limit_until, now)
            /\ IF get_queue_size(queue) = 0
               THEN /\ tick_pc' = "empty"
                    /\ UNCHANGED <<queue, processed_users, idx,
                                   queue_size_before, processing>>
               ELSE /\ queue_size_before' = get_queue_size(queue)
                    /\ processing' = TRUE
                    /\ processed_users' = TakeBatch(queue, batch_size)
                    /\ queue' = LeftAfterBatch(queue, batch_size)
                    /\ idx' = 1
                    /\ tick_pc' = "batch"
    /\ bulk' = IF bulk.pc = "idle" \/ tick_pc' # "batch" THEN bulk
               ELSE [bulk EXCEPT !.taken = @ \cup
                        {processed_users'[i] : i \in 1..Len(processed_users')}]
    /\ UNCHANGED <<retry_counts, run, platform, db_users, env, wall, call>>

\* the early returns of the tick (governor active, queue empty): finally clause
TickReturn ==
    /\ tick_pc \in {"skipped", "empty"}
    /\ tick_pc' = "idle"
    /\ processing' = FALSE
    /\ UNCHANGED <<queue, gov, retry_counts, processed_users, idx,
                   queue_size_before, run, platform, db_users, env, slow, call>>

\* one iteration of the for loop: the governor is asked again, then the
\* subject is handed to process_single_user
BatchStep_mut ==
    /\ tick_pc = "batch"
    /\ LET user_id == processed_users[idx]
       IN  IF is_rate_limited(rate_limit_detected, rate_limit_until, now)
           THEN /\ retry_counts' = increment_retry_count(retry_counts, user_id)
                /\ queue' = IF should_retry(retry_counts', user_id)
                            THEN add_user(queue, user_id) ELSE queue
                /\ tick_pc' = "finish"
                /\ UNCHANGED <<gov, run>>
           ELSE /\ rate_limit_detected' =
                      is_rate_limited_detected(rate_limit_detected, rate_limit_until, now)
                /\ rate_limit_until' =
                      is_rate_limited_until(rate_limit_detected, rate_limit_until, now)
                /\ run' = [run EXCEPT !["loop"] = Begin(user_id)]
                /\ tick_pc' = "running"
                /\ UNCHANGED <<queue, retry_counts>>
    /\ UNCHANGED <<processed_users, idx, queue_size_before,
                   processing, platform, db_users, env, slow, call>>
BatchStep ==
    /\ tick_pc = "batch"
    /\ LET user_id == processed_users[idx]
       IN  IF is_rate_limited(rate_limit_detected, rate_limit_until, now)
           THEN /\ queue' = add_user(queue, user_id)
                /\ tick_pc' = "finish"
                /\ UNCHANGED <<gov, run>>
           ELSE /\ rate_limit_detected' =
                      is_rate_limited_detected(rate_limit_detected, rate_limit_until, now)
                /\ rate_limit_until' =
                      is_rate_limited_until(rate_limit_detected, rate_limit_until, now)
                /\ run' = [run EXCEPT !["loop"] = Begin(user_id)]
                /\ tick_pc' = "running"
                /\ UNCHANGED queue
    /\ UNCHANGED <<retry_counts, processed_users, idx, queue_size_before,
                   processing, platform, db_users, env, slow, call>>

\* process_single_user has left with an exception: the success report of a
\* subject with polity and settlement could not be built
raised(r) == run[r].pc = "success" /\ run[r].reports = {}

\* process_single_user is over.  After a return the inter-subject delay
\* follows; an exception is caught by the except clause of the for loop,
\* which goes on with the next subject
LoopReturn ==
    /\ tick_pc = "running"
    /\ run["loop"].pc \in Terminal
    /\ run' = [run EXCEPT !["loop"] = IdleRun]
    /\ idx' = idx + 1
    /\ tick_pc' = IF ~raised("loop") THEN "sleep10"
                  ELSE IF idx + 1 > Len(processed_users) THEN "finish" ELSE "batch"
    /\ UNCHANGED <<queue, gov, retry_counts, processed_users,
                   queue_size_before, processing, platform, db_users, env, slow, call>>

\* asyncio.sleep(10) after process_single_user is over
InterSubjectDelay ==
    /\ tick_pc = "sleep10"
    /\ tick_pc' = IF idx > Len(processed_users) THEN "finish" ELSE "batch"
    /\ UNCHANGED <<queue, gov, retry_counts, processed_users, idx, run,
                   queue_size_before, processing, platform, db_users, env, slow, call>>

\* the condition under which the tick sends the completion report
completion_due_mut(queue_size_after, size_before) == size_before > 0
completion_due(queue_size_after, size_before) ==
    queue_size_after = 0 /\ size_before > 0

\* the end of the for loop: the completion check; without a report the
\* finally clause resets the processing flag and the tick is over
FinishBatch ==
    /\ tick_pc = "finish"
    /\ IF completion_due(get_queue_size(queue), queue_size_before)
       THEN /\ tick_pc' = "report"
            /\ UNCHANGED <<processing, processed_users, idx, queue_size_before>>
       ELSE /\ processing' = FALSE
            /\ tick_pc' = "idle"
            /\ processed_users' = <<>>
            /\ idx' = 1
            /\ queue_size_before' = 0
    /\ UNCHANGED <<queue, gov, retry_counts, run, platform, db_users, env, slow, call>>

\* the completion report has been sent to both channels: finally clause
CompletionReport ==
    /\ tick_pc = "report"
    /\ processing' = FALSE
    /\ tick_pc' = "idle"
    /\ processed_users' = <<>>
    /\ idx' = 1
    /\ queue_size_before' = 0
    /\ UNCHANGED <<queue, gov, retry_counts, run, platform, db_users, env, slow, call>>

\* ------------------------------------------------------------------ Next
\* the pipeline steps of one caller of process_single_user
Pipeline(r) ==
    \/ \E resp \in IdentityAnswers(run[r].user) : IdentityResponse(r, resp)
    \/ StartProfile(r)
    \/ \E resp \in ProfileResponses :
          ProfileResponse(r, resp, NationOf(run[r].user), TownOf(run[r].user))

FastLoop ==
    \/ TickStart
    \/ TickReturn
    \/ BatchStep
    \/ LoopReturn
    \/ InterSubjectDelay
    \/ FinishBatch
    \/ CompletionReport
    \/ Pipeline("loop")

\* the engine with its command layer and member events
Next ==
    \/ AdvanceTime
    \/ \E u \in LeaveCandidates : MemberJoin(u)
    \/ \E u \in LeaveCandidates : MemberLeave(u)
    \/ \E u \in AddCandidates : CommandAdd(u)
    \/ BulkEnqueue
    \/ ClearQueue
    \/ \E u \in CmdUsers : CmdConfirm(u)
    \/ CmdReturn
    \/ Pipeline("cmd")
    \/ FastLoop

Spec == Init /\ [][Next]_vars

\* the fast loop alone, fed with every subject
NextBatch ==
    \/ AdvanceTime
    \/ \E u \in Subjects : CommandAdd(u)
    \/ ClearQueue
    \/ FastLoop

SpecBatch == Init /\ [][NextBatch]_vars

\* the reconciler alone, driven by the /confirm command against an upstream
\* that may answer any polity and settlement.  Members may hold roles and a
\* nickname given by hand before the engine first sees them, and the mapping
\* file of NationRoleManager may already know a polity.
Nations == {BASE_NATION, ALLY_NATION, OTHER_NATION, UNAFFILIATED, NO_INFO}
Towns == {TOWN_MAPPED, TOWN_OTHER, NO_INFO}
ReconUsers == {1, 2}
InitialRoles == {UNMANAGED_ROLE, "foreign", OTHER_NATION, TOWN_MAPPED}
InitialNicks(u) == {NoNick, [name |-> McName(u), label |-> OTHER_NATION]}

InitRecon ==
    /\ queue = <<>>
    /\ processing = FALSE
    /\ rate_limit_detected = FALSE
    /\ rate_limit_until = NoTime
    /\ retry_counts = <<>>
    /\ tick_pc = "idle"
    /\ processed_users = <<>>
    /\ idx = 1
    /\ queue_size_before = 0
    /\ run = [r \in Runners |-> IdleRun]
    /\ roles \in [Subjects -> SUBSET InitialRoles]
    /\ \A u \in Subjects \ ReconUsers : roles[u] = {}
    /\ nick \in [Subjects -> {NoNick} \cup UNION {InitialNicks(u) : u \in Subjects}]
    /\ \A u \in Subjects :
          nick[u] \in (IF u \in ReconUsers \ Linked THEN InitialNicks(u) ELSE {NoNick})
    /\ nation_roles \in SUBSET {OTHER_NATION}
    /\ db_users = {}
    /\ exceptions = {}
    /\ members = Subjects
    /\ clock = [day |-> 0, hour |-> 0, minute |-> 0]
    /\ SchedulerStarted
    /\ call = NoCall
    /\ callsign = IdleCallsign
    /\ status = NoStatus

\* the answers of the upstream to the two lookups, throttling left out
AnswerIdentity(r) ==
    \E resp \in IdentityAnswers(run[r].user) \ {"429"} : IdentityResponse(r, resp)

AnswerProfile(r) ==
    \E resp \in ProfileResponses \ {"429"} :
        \E nation \in Nations : \E town \in Towns :
            ProfileResponse(r, resp, nation, town)

NextRecon ==
    \/ \E u \in ReconUsers : CmdConfirm(u)
    \/ CmdReturn
    \/ AnswerIdentity("cmd")
    \/ StartProfile("cmd")
    \/ AnswerProfile("cmd")

SpecRecon == InitRecon /\ [][NextRecon]_vars

\* the fast loop against a platform that may refuse mutation calls: the
\* bot lacks the permission for the kinds in forbidden while update_user_info
\* runs
ForbiddenNations == {BASE_NATION, OTHER_NATION}

ResolvedForbidden(r) ==
    /\ run[r].pc = "prof_wait"
    /\ \E nation \in ForbiddenNations : \E forbidden \in SUBSET MutationKinds :
          Resolved(r, nation, TOWN_MAPPED, forbidden)
    /\ UNCHANGED <<tick, env, slow, call>>

NextForbidden ==
    \/ AdvanceTime
    \/ \E u \in CmdUsers : CommandAdd(u)
    \/ FastLoop
    \/ ResolvedForbidden("loop")

SpecForbidden == Init /\ [][NextForbidden]_vars

\* ---------------------------------------------------------- slow loop
\* the clock shows the hour of the weekly trigger
InSlot(c) == c.day = AUTO_EXECUTION_DAY /\ c.hour = AUTO_EXECUTION_HOUR

\* the clock one minute later
NextMinute(c) ==
    IF c.minute + 1 < MinutesPerHour THEN [c EXCEPT !.minute = @ + 1]
    ELSE IF c.hour + 1 < HoursPerDay
    THEN [day |-> c.day, hour |-> c.hour + 1, minute |-> 0]
    ELSE [day |-> (c.day + 1) % DaysPerWeek, hour |-> 0, minute |-> 0]

\* a minute passes on the wall clock; an iteration of auto_roles_checker
\* that is due runs before the minute is over
ClockTick ==
    /\ ~(scheduler_running /\ check_wait = 0)
    /\ clock' = NextMinute(clock)
    /\ check_wait' = IF scheduler_running THEN check_wait - 1 ELSE check_wait
    /\ fired' = IF InSlot(clock) /\ ~InSlot(clock') THEN 0 ELSE fired
    /\ rate_limit_until' = IF rate_limit_until # NoTime /\ rate_limit_until > now
                           THEN rate_limit_until - 1 ELSE rate_limit_until
    /\ UNCHANGED <<queue, retry_counts, rate_limit_detected, tick, run,
                   platform, db_users, env, scheduler_running, bulk, call>>

\* auto_roles_checker: the comparison of the clock with the weekly trigger
auto_roles_checker_match(c) ==
    /\ c.day = AUTO_EXECUTION_DAY
    /\ c.hour = AUTO_EXECUTION_HOUR
    /\ 0 <= c.minute /\ c.minute < MinutesPerHour

\* one iteration of auto_roles_checker; on a match the task running
\* execute_auto_roles is created.  One such task is followed at a time.
AutoRolesChecker ==
    /\ scheduler_running
    /\ check_wait = 0
    /\ bulk.pc = "idle"
    /\ check_wait' = MinutesPerHour
    /\ IF auto_roles_checker_match(clock)
       THEN /\ fired' = Min(fired + 1, MaxFired)
            /\ bulk' = [pc |-> "roles", role |-> 1, added_count |-> 0, taken |-> {}]
       ELSE UNCHANGED <<fired, bulk>>
    /\ UNCHANGED <<queue, retry_counts, gov, tick, run, platform, db_users,
                   env, clock, scheduler_running, call>>

\* stop_scheduler (or the end of the process) between two ticks
StopScheduler ==
    /\ scheduler_running
    /\ tick_pc = "idle"
    /\ scheduler_running' = FALSE
    /\ UNCHANGED <<queue, retry_counts, gov, tick, run, platform, db_users,
                   env, clock, check_wait, fired, bulk, call>>

\* start_scheduler: both loops are started, the first iteration is due
StartScheduler ==
    /\ ~scheduler_running
    /\ scheduler_running' = TRUE
    /\ check_wait' = 0
    /\ UNCHANGED <<queue, retry_counts, gov, tick, run, platform, db_users,
                   env, clock, fired, bulk, call>>

\* the members of role i offered to add_user
Cohort(i) == (AutoRoleCohorts[i] \cap members) \ exceptions

\* the number of add_user calls that return True when the subjects of S are
\* offered in member order
RECURSIVE CountAdded(_, _)
CountAdded(q, S) ==
    IF S = {} THEN 0
    ELSE LET u == CHOOSE x \in S : \A y \in S : x <= y
         IN  (IF add_user_result(q, u) THEN 1 ELSE 0)
             + CountAdded(add_user(q, u), S \ {u})

\* added_count after the members of one role were offered
added_count_step_mut(count, q, S) == count + Cardinality(S)
added_count_step(count, q, S) == count + CountAdded(q, S)

\* execute_auto_roles: the members of one role are offered to the queue,
\* then the task yields
ExecuteAutoRolesStep ==
    /\ bulk.pc = "roles"
    /\ queue' = AddAll(queue, Cohort(bulk.role))
    /\ bulk' = [bulk EXCEPT
                  !.added_count = added_count_step(@, queue, Cohort(bulk.role)),
                  !.role = @ + 1,
                  !.pc = IF bulk.role = Len(AutoRoleCohorts) THEN "done" ELSE "roles"]
    /\ UNCHANGED <<retry_counts, gov, tick, run, platform, db_users, env, wall, call>>

\* the queue and added_count after the roles from i on were offered
RECURSIVE OfferRoles(_, _, _)
OfferRoles(q, count, i) ==
    IF i > Len(AutoRoleCohorts) THEN [queue |-> q, added_count |-> count]
    ELSE OfferRoles(AddAll(q, Cohort(i)), added_count_step(count, q, Cohort(i)), i + 1)

\* manual_execute_auto_roles: every role is offered without a yield
ManualExecute ==
    /\ bulk.pc = "idle"
    /\ LET offered == OfferRoles(queue, 0, 1)
       IN  /\ queue' = offered.queue
           /\ bulk' = [pc |-> "done", role |-> Len(AutoRoleCohorts) + 1,
                       added_count |-> offered.added_count, taken |-> {}]
    /\ UNCHANGED <<retry_counts, gov, tick, run, platform, db_users, env, wall, call>>

\* the report with added_count is sent and the bulk enqueue returns
ExecuteReturn ==
    /\ bulk.pc = "done"
    /\ bulk' = IdleBulk
    /\ UNCHANGED <<queue, retry_counts, gov, tick, run, platform, db_users,
                   env, wall, call>>

\* the two loops of the scheduler with the manual trigger; the upstream
\* answers every lookup without throttling
RunningTickStart == scheduler_running /\ TickStart

NextSlow ==
    \/ ClockTick
    \/ AutoRolesChecker
    \/ StopScheduler
    \/ StartScheduler
    \/ ExecuteAutoRolesStep
    \/ ManualExecute
    \/ ExecuteReturn
    \/ RunningTickStart
    \/ TickReturn
    \/ BatchStep
    \/ LoopReturn
    \/ InterSubjectDelay
    \/ FinishBatch
    \/ CompletionReport
    \/ AnswerIdentity("loop")
    \/ StartProfile("loop")
    \/ \E resp \in ProfileResponses \ {"429"} :
          ProfileResponse("loop", resp, NationOf(run["loop"].user),
                          TownOf(run["loop"].user))

\* the process may be started at any time of the week
Clocks == [day : 0..(DaysPerWeek - 1), hour : 0..(HoursPerDay - 1),
           minute : 0..(MinutesPerHour - 1)]

InitSlow ==
    /\ queue = <<>>
    /\ processing = FALSE
    /\ rate_limit_detected = FALSE
    /\ rate_limit_until = NoTime
    /\ retry_counts = <<>>
    /\ tick_pc = "idle"
    /\ processed_users = <<>>
    /\ idx = 1
    /\ queue_size_before = 0
    /\ run = [r \in Runners |-> IdleRun]
    /\ roles = [u \in Subjects |-> {}]
    /\ nick = [u \in Subjects |-> NoNick]
    /\ nation_roles = {}
    /\ db_users = {}
    /\ exceptions \in SUBSET ExemptCandidates
    /\ members = Subjects
    /\ clock \in Clocks
    /\ SchedulerStarted
    /\ call = NoCall
    /\ callsign = IdleCallsign
    /\ status = NoStatus

SpecSlow == InitSlow /\ [][NextSlow]_vars

\* the two commands a member can issue for itself, /confirm and the
\* callsign command, against an upstream that may throttle
NextCallsign ==
    \/ AdvanceTime
    \/ \E u \in ReconUsers : CmdConfirm(u)
    \/ CmdReturn
    \/ Pipeline("cmd")
    \/ \E u \in ReconUsers : CallsignCommand(u)
    \/ \E resp \in IdentityResponses : CallsignIdentity(resp)
    \/ \E resp \in CallsignResponses : CallsignResident(resp)
    \/ \E resp \in CallsignResponses :
          CallsignTown(resp, NationOf(callsign.user))

SpecCallsign == Init /\ [][NextCallsign]_vars

\* the fast loop of one subject with the status query of the command layer
NextStatus ==
    \/ AdvanceTime
    \/ \E u \in CmdUsers : CommandAdd(u)
    \/ FastLoop
    \/ GetSchedulerInfo

SpecStatus == Init /\ [][NextStatus]_vars

\* ---------------------------------------------------------- properties
InQueue(u) == \E i \in 1..Len(queue) : queue[i] = u

\* is_active() would answer true: a throttle was seen and resume_at is ahead
GovernorActive == rate_limit_detected /\ rate_limit_until > now

\* a request of the pipeline is in flight
Waits == {"id_wait", "prof_wait"}

\* the step in which caller r receives a 429 answer
ThrottleStep(r) ==
    /\ run[r].pc \in Waits
    /\ run'[r].pc \in {"retry", "exhausted"}

\* C1: in every reachable state each subject_id occurs at most once in the
\* queue, whatever the interleaving of adds, dequeues, re-enqueues and clear
C1_QueueUnique ==
    \A i, j \in 1..Len(queue) : i # j => queue[i] # queue[j]

\* the governor became active in the middle of a batch and the subject at
\* hand was put back behind a subject re-enqueued by the throttle handler
C1_Witness ==
    /\ tick_pc = "finish"
    /\ idx <= Len(processed_users)
    /\ Len(queue) >= 2
    /\ InQueue(processed_users[idx])
    /\ \E u \in DOMAIN retry_counts : InQueue(u)

\* C2: when the governor becomes active in the middle of a batch, every
\* not-yet-processed subject of that batch is back in the queue when the
\* for loop is left
C2_BatchRestored ==
    [][(tick_pc = "batch" /\ tick_pc' = "finish") =>
          \A i \in idx..Len(processed_users) :
              \E k \in 1..Len(queue') : queue'[k] = processed_users[i]]_vars

\* C3: no identity or profile lookup is started while the governor is active
C3_NoLookupWhileActive ==
    [][\A r \in Runners :
          (run[r].pc \notin Waits /\ run'[r].pc \in Waits) => ~GovernorActive]_vars

\* C4: a tick that starts while the governor is active dequeues nothing,
\* starts no lookup and mutates nothing: queue, RetryState, roles and
\* nicknames are the same after the tick as before it
C4_SkippedTick ==
    [][/\ (tick_pc = "idle" /\ tick_pc' # "idle" /\ GovernorActive) =>
            /\ tick_pc' = "skipped"
            /\ UNCHANGED <<queue, retry_counts, roles, nick, run, processed_users>>
       /\ (tick_pc = "skipped" /\ tick_pc' # "skipped") =>
            /\ tick_pc' = "idle"
            /\ UNCHANGED <<queue, retry_counts, roles, nick, run, processed_users>>
      ]_vars

\* a tick was skipped with subjects waiting in the queue
C4_Witness ==
    /\ tick_pc = "skipped"
    /\ queue # <<>>
    /\ GovernorActive

C6_BoundedRetry ==
    [][\A r \in Runners :
          ThrottleStep(r) =>
              LET user_id == run[r].user
                  attempt_count == retry_get(retry_counts, user_id) + 1
              IN  IF attempt_count < MAX_RETRY_COUNT
                  THEN /\ run'[r].pc = "retry"
                       /\ \E k \in 1..Len(queue') : queue'[k] = user_id
                       /\ user_id \in DOMAIN retry_counts'
                       /\ retry_counts'[user_id] = attempt_count
                  ELSE /\ run'[r].pc = "exhausted"
                       /\ queue' = queue
                       /\ user_id \notin DOMAIN retry_counts']_vars

\* the retry budget of a subject has just been exhausted
C6_Witness ==
    \E r \in Runners :
        /\ run[r].pc = "exhausted"
        /\ run[r].user \notin DOMAIN retry_counts
        /\ ~InQueue(run[r].user)

\* C7: every RetryState entry satisfies 0 <= attempt_count <= MAX_RETRY
C7_RetryRange ==
    \A u \in DOMAIN retry_counts :
        0 <= retry_counts[u] /\ retry_counts[u] <= MAX_RETRY_COUNT

\* a subject has been throttled on two attempts in a row, another one once
C7_Witness ==
    /\ \E u \in DOMAIN retry_counts : retry_counts[u] = MAX_RETRY_COUNT - 1
    /\ \E u \in DOMAIN retry_counts : retry_counts[u] = 1

\* C8: each subject that has a RetryState entry is in the queue or is being
\* processed (in the batch at hand or in a running resolution)
BeingProcessed(u) ==
    \/ \E r \in Runners : run[r].user = u
    \/ \E i \in idx..Len(processed_users) : processed_users[i] = u

C8_RetryOnlyWhilePresent ==
    \A u \in DOMAIN retry_counts : InQueue(u) \/ BeingProcessed(u)

\* C9: the governor is inactive initially; a throttle makes it active with
\* resume_at = now + 5 minutes; a query before resume_at answers true and
\* changes nothing; a query at or after resume_at, and every query while
\* inactive, answers false and leaves active and resume_at reset
GovernorQueried ==
    \/ tick_pc = "idle" /\ tick_pc' # "idle"
    \/ tick_pc = "batch" /\ tick_pc' # "batch"

AnsweredActive ==
    \/ tick_pc = "idle" /\ tick_pc' = "skipped"
    \/ tick_pc = "batch" /\ tick_pc' = "finish"

C9_Governor ==
    /\ ~rate_limit_detected /\ rate_limit_until = NoTime
    /\ [][/\ (\E r \in Runners : ThrottleStep(r)) =>
                /\ rate_limit_detected'
                /\ rate_limit_until' = now + RATE_LIMIT_MINUTES
          /\ GovernorQueried =>
                IF rate_limit_detected /\ now < rate_limit_until
                THEN AnsweredActive /\ UNCHANGED <<rate_limit_detected, rate_limit_until>>
                ELSE /\ ~AnsweredActive
                     /\ ~rate_limit_detected'
                     /\ rate_limit_until' = NoTime
          /\ (rate_limit_detected /\ ~rate_limit_detected') => GovernorQueried
         ]_vars

\* a query at or after resume_at has reset the governor: a subject that was
\* throttled is in a batch again
C9_Witness ==
    /\ ~rate_limit_detected
    /\ rate_limit_until = NoTime
    /\ tick_pc = "batch"
    /\ \E i \in 1..Len(processed_users) : processed_users[i] \in DOMAIN retry_counts

\* C10: entries leave the queue at the front, oldest first and in order, and
\* enter it at the back: a tick takes the longest prefix of at most
\* batch_size entries (nothing from an empty queue), and a subject
\* re-enqueued after a throttle goes behind every entry then queued
IsPrefix(s, t) == Len(s) <= Len(t) /\ SubSeq(t, 1, Len(s)) = s

C10_Fifo ==
    [][/\ (tick_pc = "idle" /\ tick_pc' \in {"batch", "empty"}) =>
            /\ processed_users' \o queue' = queue
            /\ Len(processed_users') = Min(batch_size, Len(queue))
       /\ ~(tick_pc = "idle" /\ tick_pc' = "batch") =>
            (queue' = <<>> \/ IsPrefix(queue, queue'))
       /\ \A r \in Runners :
            (ThrottleStep(r) /\ run'[r].pc = "retry" /\ ~InQueue(run[r].user)) =>
                queue' = Append(queue, run[r].user)
      ]_vars

\* a subject was re-enqueued by the throttle handler behind a waiting entry
C10_Witness ==
    \E r \in Runners :
        /\ run[r].pc = "retry"
        /\ Len(queue) >= 2
        /\ queue[Len(queue)] = run[r].user

\* C11: add_user returns true and appends the subject when it is absent;
\* when the subject is already queued it returns false and leaves the queue
\* as it is, so a second add of the same subject leaves the queue as the
\* first add made it (one entry for a queue that was empty)
C11_AddContract ==
    /\ [](\A u \in Subjects :
            InQueue(u) =>
                /\ add_user(queue, u) = queue
                /\ ~add_user_result(queue, u))
    /\ [][\A u \in Subjects :
            (CommandAdd(u) /\ ~InQueue(u)) =>
                /\ add_user_result(queue, u)
                /\ queue' = Append(queue, u)
                /\ ~add_user_result(queue', u)
                /\ add_user(queue', u) = queue'
                /\ (queue = <<>> => Len(add_user(queue', u)) = 1)]_vars

\* the command has added a subject to the empty queue and a second subject
\* behind it
C11_Witness ==
    /\ Len(queue) = 2
    /\ tick_pc = "idle"
    /\ DOMAIN retry_counts = {}
    /\ \A u \in Subjects : InQueue(u) => ~add_user_result(queue, u)

\* the roles the engine manages, given the polity mapping: citizen, foreign,
\* the mapped settlement roles and the mapped polity roles
ManagedRoles(mapped) == {"citizen", "foreign"} \cup MappedTowns \cup mapped

\* the step in which caller r receives the answer resp to its identity lookup
IdentityStep(r, resp) == run[r].pc = "id_wait" /\ IdentityResponse(r, resp)

\* the step in which caller r resolves its subject to polity nation and
\* settlement town
ResolvedStep(r, nation, town) == ProfileResponse(r, "ok", nation, town)

\* C12: when the identity lookup answers with empty data the outcome is
\* NotLinked: no profile lookup is made, every managed role the subject holds
\* (citizen, foreign, mapped settlement roles, mapped polity roles) is
\* removed, the nickname is reset and the subject is not re-enqueued
C12_NotLinkedClears ==
    [][\A r \in Runners :
          IdentityStep(r, "empty") =>
              LET user_id == run[r].user
              IN  /\ run'[r].pc = "notlinked"
                  /\ roles'[user_id] \cap ManagedRoles(nation_roles) = {}
                  /\ nick'[user_id] = NoNick
                  /\ queue' = queue]_vars

\* C13: a server error or a timeout on the identity lookup leaves the roles
\* and the nickname of the subject as they are
C13_ServerErrorKeepsRoles ==
    [][\A r \in Runners :
          (IdentityStep(r, "err") \/ IdentityStep(r, "timeout")) =>
              /\ run'[r].pc = "error"
              /\ UNCHANGED <<roles, nick>>]_vars

\* C14: an error on either lookup (timeout, status other than 200 and 429,
\* empty profile payload) ends the cycle: the queue, the governor's flag and
\* resume_at are unchanged and the subject has no RetryState entry afterwards
C14_ErrorTerminal ==
    [][\A r \in Runners :
          (run[r].pc \in Waits /\ run'[r].pc = "error") =>
              /\ queue' = queue
              /\ UNCHANGED <<rate_limit_detected, rate_limit_until>>
              /\ run[r].user \notin DOMAIN retry_counts']_vars

\* a lookup has failed while the governor is active and another subject
\* still has a retry entry
C14_Witness ==
    \E r \in Runners :
        /\ run[r].pc = "error"
        /\ GovernorActive
        /\ run[r].user \notin DOMAIN retry_counts
        /\ ~InQueue(run[r].user)
        /\ DOMAIN retry_counts # {}

\* C15: when the profile lookup succeeds with the polity or the settlement
\* absent, the subject is reconciled as foreign (foreign role held, citizen
\* role not held), the identity cache is written, the subject is not
\* re-enqueued and its nickname is not reset
C15_IncompleteIsForeign ==
    [][\A r \in Runners : \A nation \in Nations : \A town \in Towns :
          (ResolvedStep(r, nation, town) /\ (nation = NO_INFO \/ town = NO_INFO)) =>
              LET user_id == run[r].user
              IN  /\ run'[r].pc = "success"
                  /\ "foreign" \in roles'[user_id]
                  /\ "citizen" \notin roles'[user_id]
                  /\ user_id \in db_users'
                  /\ queue' = queue
                  /\ nick'[user_id] # NoNick]_vars

\* C16: when the fast loop leaves a subject whose processing ended in
\* success, NotLinked, an error or an exhausted retry budget, a report for
\* that subject has been sent to the success or the failure channel
C16_TerminalReported ==
    [][(tick_pc = "running" /\ tick_pc' # "running"
        /\ run["loop"].pc \in {"success", "notlinked", "error", "exhausted"}) =>
           run["loop"].reports \cap {SUCCESS_CHANNEL, FAILURE_CHANNEL} # {}]_vars

\* C17: when a 429 answer uses up a subject's retry budget a failure report
\* for the subject is sent, whichever lookup was answered
C17_ExhaustedReported ==
    [][\A r \in Runners :
          (ThrottleStep(r) /\ run'[r].pc = "exhausted") =>
              FAILURE_CHANNEL \in run'[r].reports]_vars

\* C18: after a reconcile the subject holds the citizen role iff its polity
\* is the reference polity or an allied one, holds the foreign role
\* otherwise, and never both
C18_CitizenXorForeign ==
    [][\A r \in Runners : \A nation \in Nations : \A town \in Towns :
          ResolvedStep(r, nation, town) =>
              LET user_id == run[r].user
                  friendly == nation = BASE_NATION \/ nation \in Alliances
              IN  /\ ("citizen" \in roles'[user_id]) <=> friendly
                  /\ ("foreign" \in roles'[user_id]) <=> ~friendly]_vars

\* a subject that held the foreign role and the role of another polity was
\* resolved to an allied polity: citizen role held, foreign role gone
C18_Witness ==
    \E r \in Runners :
        /\ run[r].pc = "success"
        /\ nick[run[r].user].label = ALLY_NATION
        /\ "citizen" \in roles[run[r].user]
        /\ "foreign" \notin roles[run[r].user]
        /\ OTHER_NATION \in roles[run[r].user]

\* the roles desired for a membership: citizen or foreign, the role of the
\* polity, and the role of the settlement where a mapping exists
DesiredRoles(nation, town) ==
    (IF nation = BASE_NATION \/ nation \in Alliances THEN {"citizen"} ELSE {"foreign"})
    \cup (IF nation \notin {UNAFFILIATED, NO_INFO} THEN {nation} ELSE {})
    \cup (IF town \in MappedTowns THEN {town} ELSE {})

\* C19: after a reconcile the managed roles the subject holds are exactly
\* the roles desired for its current membership
C19_HeldEqualsDesired ==
    [][\A r \in Runners : \A nation \in Nations : \A town \in Towns :
          ResolvedStep(r, nation, town) =>
              roles'[run[r].user] \cap ManagedRoles(nation_roles')
                  = DesiredRoles(nation, town)]_vars

\* C20: no step of the engine adds or removes a role outside the managed
\* set: each subject holds the same unmanaged roles after the step as before
C20_UnmanagedUntouched ==
    [][\A u \in Subjects :
          roles'[u] \ ManagedRoles(nation_roles')
              = roles[u] \ ManagedRoles(nation_roles')]_vars

\* a subject holding an unmanaged role was reconciled as citizen after
\* having been foreign, and still holds the unmanaged role
C20_Witness ==
    \E r \in Runners :
        /\ run[r].pc = "success"
        /\ UNMANAGED_ROLE \in roles[run[r].user]
        /\ "citizen" \in roles[run[r].user]
        /\ OTHER_NATION \in nation_roles
        /\ OTHER_NATION \in roles[run[r].user]

\* C21: a cycle that follows a cycle with the same membership, with nothing
\* else touching the subject in between, issues no add-role, remove-role or
\* edit-nickname call: from every reachable state and for every membership,
\* the calls computed on the outcome of a first reconciliation are none
C21_SecondCycleSilent ==
    \A u \in Subjects : \A nation \in Nations : \A town \in Towns :
        LET mc_id == McName(u)
            first == update_user_info_calls(roles[u], nick[u], mc_id, nation, town)
            held == roles_after_calls(roles[u], first, {})
            shown == nick_after_calls(nick[u],
                        create_nickname(mc_id, nation, nick[u]), first, {})
        IN  update_user_info_calls(held, shown, mc_id, nation, town) = {}

\* a cycle of a subject reconciled before has ended without a single call
C21_Witness ==
    /\ run["cmd"].pc = "success"
    /\ run["cmd"].changes = {}
    /\ "citizen" \in roles[run["cmd"].user]

InProgress(r) == run[r].pc \in {"id_wait", "sleep5", "prof_wait"}

\* C23: at most one subject's resolution is in progress at any time: the
\* subjects of a batch are resolved one after the other and no other entry
\* point resolves a subject while the fast loop does
C23_OneAtATime ==
    Cardinality({r \in Runners : InProgress(r)}) <= 1

\* C24: the weekly bulk enqueue is started exactly once per scheduled slot,
\* also when the loop is started again inside the slot: the number of
\* starts within one slot never exceeds one
C24_OncePerSlot == fired <= 1

\* C25: the slow loop starts the bulk enqueue only when day of the week,
\* hour and minute all equal the configured trigger
C25_MinuteMatches ==
    [][fired' > fired => clock.minute = AUTO_EXECUTION_MINUTE]_vars

C27_CompletionReport ==
    [][/\ (tick_pc' = "report" /\ tick_pc # "report")
            => (tick_pc = "finish" /\ queue_size_before > 0 /\ Len(queue) = 0)
       /\ (tick_pc = "finish" /\ tick_pc' # "finish"
              /\ queue_size_before > 0 /\ Len(queue) = 0)
            => tick_pc' = "report"
       /\ (tick_pc \in {"skipped", "empty"} /\ tick_pc' # tick_pc)
            => tick_pc' = "idle"]_vars

\* the report is being sent by a tick that started with three subjects
C27_Witness ==
    /\ tick_pc = "report"
    /\ queue_size_before = 3
    /\ queue = <<>>

\* a caller enters process_single_user with a member that is not exempt
Enters(r) ==
    /\ run[r].pc = "idle"
    /\ run'[r].pc \notin {"idle", "skipped", "nomember"}

\* C28: the identity lookup is skipped exactly when the cache holds an
\* identity for the subject, and then the profile lookup is made at once;
\* in every other case the profile lookup is made only after the identity
\* lookup was sent and answered with an identity
C28_SkipIffCached ==
    [][\A r \in Runners :
          /\ Enters(r) => /\ run'[r].user \in db_users => run'[r].pc = "prof_wait"
                          /\ run'[r].user \notin db_users => run'[r].pc = "id_wait"
          /\ (run'[r].pc = "prof_wait" /\ run[r].pc # "prof_wait")
                => \/ Enters(r) /\ run'[r].user \in db_users
                   \/ run[r].pc = "sleep5"
          /\ (run'[r].pc = "sleep5" /\ run[r].pc # "sleep5")
                => /\ run[r].pc = "id_wait"
                   /\ run[r].user \in Linked]_vars

\* the loop sends the profile lookup of a cached subject without an
\* identity lookup
C28_Witness ==
    /\ tick_pc = "running"
    /\ run["loop"].pc = "prof_wait"
    /\ run["loop"].user \in db_users
    /\ run["cmd"].pc = "idle"
    /\ retry_counts = <<>>

\* C29: the identity cache entry of a subject is created or overwritten
\* only by a cycle whose resolution succeeded; a cycle that ends in
\* NotLinked, Throttled or NetworkOrServerError leaves the cache as it was
C29_CacheOnlyOnSuccess ==
    [][/\ db_users' # db_users
            => \E r \in Runners :
                  /\ run[r].pc = "prof_wait"
                  /\ run'[r].pc = "success"
                  /\ db_users' = db_users \cup {run[r].user}
       /\ \A r \in Runners :
            (run'[r].pc \in {"retry", "exhausted", "notlinked", "error"}
             /\ run[r].pc # run'[r].pc)
            => db_users' = db_users]_vars

\* C30: the status query changes nothing: queue, RetryState, governor,
\* platform and cache are the same before and after it, also when it is
\* called after resume_at has passed, and its answer shows the governor
\* flag, resume_at and the number of retry entries as they are
C30_StatusReadOnly ==
    [][status' # status
          => /\ UNCHANGED <<queue, retry_counts, rate_limit_detected,
                            rate_limit_until, tick, run, platform, db_users,
                            exceptions, members, callsign, slow, call>>
             /\ status'.rate_limit_detected = rate_limit_detected
             /\ status'.rate_limit_until = rate_limit_until
             /\ status'.retry_queue_size = Cardinality(DOMAIN retry_counts)]_vars

\* the query was answered after resume_at had passed: the flag is still set
\* in the answer and in the governor
C30_Witness ==
    /\ status.rate_limit_detected
    /\ status.rate_limit_until = now
    /\ rate_limit_detected
    /\ rate_limit_until = now

\* ---------------------------------------------------------------- text
\* A text is a sequence of characters.  The characters outside ASCII are
\* written as one ASCII token each: "|" for the bar of the separator,
\* "mu", "so", "sok" for the three syllables of the unaffiliated label and
\* "(x)" for the cross mark.
MAX_LENGTH == 32
SEPARATOR == <<" ", "|", " ">>
BASE_NATION_TEXT == <<"R", "e", "d", "_", "M", "a", "f", "i", "a">>
UNAFFILIATED_TEXT == <<"mu", "so", "sok">>
NO_INFO_TEXT == <<"(x)">>
None == <<>>

LOWER == <<"a", "b", "c", "d", "e", "f", "g", "h", "i", "j", "k", "l", "m", "n", "o", "p", "q", "r", "s", "t", "u", "v", "w", "x", "y", "z">>
UPPER == <<"A", "B", "C", "D", "E", "F", "G", "H", "I", "J", "K", "L", "M", "N", "O", "P", "Q", "R", "S", "T", "U", "V", "W", "X", "Y", "Z">>

\* str.upper of one character
upper(c) ==
    IF \E i \in 1..Len(LOWER) : LOWER[i] = c
    THEN UPPER[CHOOSE i \in 1..Len(LOWER) : LOWER[i] = c]
    ELSE c

\* the character class [A-Z]
IsCapital(c) == \E i \in 1..Len(UPPER) : UPPER[i] = c

\* s[:n]
Take(s, n) == SubSeq(s, 1, Min(n, Len(s)))

\* s[n:]
Drop(s, n) == SubSeq(s, n + 1, Len(s))

\* the position of the first occurrence of sep in s at or after i, 0 if none
RECURSIVE find(_, _, _)
find(s, sep, i) ==
    IF i + Len(sep) - 1 > Len(s) THEN 0
    ELSE IF SubSeq(s, i, i + Len(sep) - 1) = sep THEN i
    ELSE find(s, sep, i + 1)

\* sep in s
contains(s, sep) == find(s, sep, 1) # 0

\* s.split(sep)
RECURSIVE split(_, _)
split(s, sep) ==
    LET i == find(s, sep, 1)
    IN  IF i = 0 THEN <<s>>
        ELSE <<SubSeq(s, 1, i - 1)>> \o split(Drop(s, i + Len(sep) - 1), sep)

\* sep.join(parts)
RECURSIVE join(_, _)
join(sep, parts) ==
    IF parts = <<>> THEN <<>>
    ELSE IF Len(parts) = 1 THEN parts[1]
    ELSE parts[1] \o sep \o join(sep, Tail(parts))

NonEmpty(part) == part # <<>>

\* abbreviate_nation_name
abbreviate_nation_name_mut(nation_name) == Take(nation_name, 5)
abbreviate_nation_name(nation_name) ==
    LET parts == split(nation_name, <<"_">>)
    IN  IF Len(parts) <= 1
        THEN LET capital_letters == SelectSeq(nation_name, IsCapital)
             IN  IF capital_letters # <<>>
                 THEN join(<<".">>, [i \in 1..Len(capital_letters) |->
                                        <<capital_letters[i]>>])
                 ELSE Take(nation_name, 5)
        ELSE LET words == SelectSeq(parts, NonEmpty)
             IN  join(<<".">>, [i \in 1..Len(words) |-> <<upper(words[i][1])>>])

\* create_nickname on texts, with the limit of the platform
create_nickname_text_mut(mc_id, nation, current_nickname, town) ==
    mc_id \o SEPARATOR \o nation
create_nickname_text(mc_id, nation, current_nickname, town) ==
    LET parts == split(current_nickname, SEPARATOR)
        keeps_callsign ==
            /\ nation = BASE_NATION_TEXT
            /\ current_nickname # None
            /\ contains(current_nickname, SEPARATOR)
            /\ Len(parts) >= 2
            /\ parts[1] = mc_id
            /\ Len(mc_id \o SEPARATOR \o parts[2]) <= MAX_LENGTH
        the_callsign ==
            IF nation = NO_INFO_TEXT
            THEN IF town # None /\ town # NO_INFO_TEXT THEN town ELSE NO_INFO_TEXT
            ELSE nation
        base_nickname == mc_id \o SEPARATOR \o the_callsign
        abbreviated_nation ==
            IF the_callsign = UNAFFILIATED_TEXT THEN <<"mu">>
            ELSE IF the_callsign = NO_INFO_TEXT THEN NO_INFO_TEXT
            ELSE abbreviate_nation_name(the_callsign)
        abbreviated_nickname == mc_id \o SEPARATOR \o abbreviated_nation
        available_length == MAX_LENGTH - Len(mc_id) - Len(SEPARATOR)
    IN  IF keeps_callsign THEN mc_id \o SEPARATOR \o parts[2]
        ELSE IF Len(base_nickname) <= MAX_LENGTH THEN base_nickname
        ELSE IF Len(abbreviated_nickname) > MAX_LENGTH
             THEN IF available_length > 0
                  THEN mc_id \o SEPARATOR \o Take(abbreviated_nation, available_length)
                  ELSE Take(mc_id, MAX_LENGTH)
        ELSE abbreviated_nickname

\* update_user_info: the nickname it computes; the settlement is not handed
\* to create_nickname
update_user_info_nickname(mc_id, nation, current_nickname, town) ==
    create_nickname_text(mc_id, nation, current_nickname, None)

\* identity names of n characters
NameText(n) == [i \in 1..n |-> "p"]
NameLengths == {3, 16, 24, 27, 28, 29, 32, 33}
CUSTOM == <<"B", "o", "s", "s">>
LONG_CUSTOM == <<"K", "e", "e", "p", "e", "r", "_", "o", "f", "_", "t", "h", "e", "_", "S", "e", "a", "l">>
NationTexts ==
    { BASE_NATION_TEXT, UNAFFILIATED_TEXT, NO_INFO_TEXT,
      <<"B", "l", "u", "e">>,
      <<"N", "o", "r", "t", "h", "e", "r", "n", "_", "U", "n", "i", "t", "e", "d", "_", "E", "m", "p", "i", "r", "e">>,
      <<"r", "e", "d", "_", "_", "m", "a", "f", "i", "a", "_">>,
      <<"N", "e", "w", "Y", "o", "r", "k", "C", "i", "t", "y", "S", "t", "a", "t", "e">>,
      <<"A", "B", "C", "D", "E", "F", "G", "H", "I", "J", "K", "L", "M", "N">>,
      <<"l", "o", "w", "l", "a", "n", "d", "s", "r", "e", "p", "u", "b", "l", "i", "c">> }
TownTexts == { None, NO_INFO_TEXT, <<"B", "e", "t", "a">> }
CurrentNicknames(mc_id) ==
    { mc_id,
      mc_id \o SEPARATOR \o CUSTOM,
      mc_id \o SEPARATOR \o LONG_CUSTOM,
      mc_id \o SEPARATOR \o CUSTOM \o SEPARATOR \o CUSTOM,
      <<"q">> \o SEPARATOR \o CUSTOM }

\* the engine at rest
AtRest ==
    /\ queue = <<>>
    /\ processing = FALSE
    /\ rate_limit_detected = FALSE
    /\ rate_limit_until = NoTime
    /\ retry_counts = <<>>
    /\ tick_pc = "idle"
    /\ processed_users = <<>>
    /\ idx = 1
    /\ queue_size_before = 0
    /\ run = [r \in Runners |-> IdleRun]
    /\ roles = [u \in Subjects |-> {}]
    /\ nick = [u \in Subjects |-> NoNick]
    /\ nation_roles = {}
    /\ db_users = {}
    /\ exceptions = {}
    /\ members = Subjects
    /\ clock = [day |-> 0, hour |-> 0, minute |-> 0]
    /\ SchedulerStarted
    /\ callsign = IdleCallsign
    /\ status = NoStatus

NicknameCalls ==
    { [fn |-> "update_user_info", mc_id |-> NameText(n), nation |-> nation,
       current_nickname |-> current, town |-> town, done |-> FALSE,
       result |-> None] :
         n \in NameLengths, nation \in NationTexts, town \in TownTexts,
         current \in UNION {CurrentNicknames(NameText(m)) : m \in NameLengths} }

InitNickname ==
    /\ AtRest
    /\ call \in NicknameCalls
    /\ call.current_nickname \in CurrentNicknames(call.mc_id)

\* update_user_info computes the new nickname of the member
ComputeNickname ==
    /\ call.fn = "update_user_info"
    /\ ~call.done
    /\ call' = [call EXCEPT !.done = TRUE,
                  !.result = update_user_info_nickname(call.mc_id, call.nation,
                                 call.current_nickname, call.town)]
    /\ UNCHANGED <<queue, retry_counts, gov, tick, run, platform, db_users,
                   env, slow>>

NextNickname == ComputeNickname

SpecNickname == InitNickname /\ [][NextNickname]_vars

\* ------------------------------------------------- nickname properties
Computed == call.fn = "update_user_info" /\ call.done

\* the abbreviation create_nickname takes for a label
AbbreviatedLabel(label) ==
    IF label = UNAFFILIATED_TEXT THEN <<"mu">>
    ELSE IF label = NO_INFO_TEXT THEN NO_INFO_TEXT
    ELSE abbreviate_nation_name(label)

\* the nickname overflows with the label and with the abbreviated label
StillOverflows ==
    /\ Len(call.mc_id \o SEPARATOR \o call.nation) > MAX_LENGTH
    /\ Len(call.mc_id \o SEPARATOR \o AbbreviatedLabel(call.nation)) > MAX_LENGTH

\* C31 as stated: for every identity name, label and current nickname the
\* computed nickname has at most 32 characters, and when even the
\* abbreviated form overflows the result begins with the identity name in
\* full
C31_NameKeptInFull ==
    Computed =>
        /\ Len(call.result) <= MAX_LENGTH
        /\ StillOverflows => Take(call.result, Len(call.mc_id)) = call.mc_id

\* C31 amended: the computed nickname has at most 32 characters; when even
\* the abbreviated form overflows, an identity name of at most 28 characters
\* is kept in full and followed by the separator and the abbreviated label
\* cut to the room that is left, and a longer identity name stands alone,
\* cut to its first 32 characters
C31_LimitKept ==
    Computed =>
        /\ Len(call.result) <= MAX_LENGTH
        /\ StillOverflows =>
              IF Len(call.mc_id) + Len(SEPARATOR) < MAX_LENGTH
              THEN call.result =
                     call.mc_id \o SEPARATOR
                       \o Take(AbbreviatedLabel(call.nation),
                               MAX_LENGTH - Len(call.mc_id) - Len(SEPARATOR))
              ELSE call.result = Take(call.mc_id, MAX_LENGTH)

\* a name of 16 characters whose abbreviated label was cut to 13 characters
C31_Witness ==
    /\ Computed
    /\ StillOverflows
    /\ Len(call.mc_id) = 16
    /\ Len(call.result) = MAX_LENGTH
    /\ Take(call.result, 16) = call.mc_id

\* the custom label carried by the current nickname, if its name part is
\* the resolved identity name
CustomLabels ==
    LET parts == split(call.current_nickname, SEPARATOR)
    IN  IF Len(parts) >= 2 /\ parts[1] = call.mc_id THEN {parts[2]} ELSE {}

HasSettlement == call.town # None /\ call.town # NO_INFO_TEXT

\* the labels the nickname may carry
ExpectedLabels ==
    IF call.nation # NO_INFO_TEXT THEN {call.nation} \cup CustomLabels
    ELSE IF HasSettlement THEN {call.town} \cup CustomLabels
    ELSE {call.nation} \cup CustomLabels

\* C32: the label of the nickname computed during reconciliation is the
\* polity name, or the custom label of the current nickname when its name
\* part is the resolved identity name, or, without a polity, the settlement
\* name (checked for short identity names, where nothing is abbreviated)
C32_LabelChoice ==
    (Computed /\ Len(call.mc_id) = 3) =>
        \E label \in ExpectedLabels :
            call.result = call.mc_id \o SEPARATOR \o label

\* the first character of every '_'-separated segment of s, uppercased
RECURSIVE FirstLetters(_, _)
FirstLetters(s, at_start) ==
    IF s = <<>> THEN <<>>
    ELSE IF Head(s) = "_" THEN FirstLetters(Tail(s), TRUE)
    ELSE IF at_start THEN <<upper(Head(s))>> \o FirstLetters(Tail(s), FALSE)
    ELSE FirstLetters(Tail(s), FALSE)

\* the characters of cs with a '.' between neighbours
Dotted(cs) ==
    IF cs = <<>> THEN <<>>
    ELSE [i \in 1..(2 * Len(cs) - 1) |->
             IF i % 2 = 1 THEN cs[(i + 1) \div 2] ELSE "."]

\* the abbreviation of a label as the rule states it
RuleAbbreviation(label) ==
    IF \E i \in 1..Len(label) : label[i] = "_"
    THEN Dotted(FirstLetters(label, TRUE))
    ELSE IF \E i \in 1..Len(label) : IsCapital(label[i])
    THEN Dotted(SelectSeq(label, IsCapital))
    ELSE Take(label, 5)

\* the custom label of the current nickname was kept
CustomKept ==
    \E label \in CustomLabels :
        /\ call.nation = BASE_NATION_TEXT
        /\ call.result = call.mc_id \o SEPARATOR \o label

DQ == "\""
SQ == "'"
BACKSLASH == "\\"
IsQuote(c) == c = DQ \/ c = SQ
UNKNOWN_TEXT == <<"U", "n", "k", "n", "o", "w", "n">>
NoQuote == ""

\* str.strip
RECURSIVE lstrip(_)
lstrip(s) == IF s # <<>> /\ Head(s) = " " THEN lstrip(Tail(s)) ELSE s
RECURSIVE rstrip(_)
rstrip(s) ==
    IF s # <<>> /\ s[Len(s)] = " " THEN rstrip(SubSeq(s, 1, Len(s) - 1)) ELSE s
strip(s) == rstrip(lstrip(s))

\* str.replace
RECURSIVE replace(_, _, _)
replace(s, old, new) ==
    LET i == find(s, old, 1)
    IN  IF i = 0 THEN s
        ELSE SubSeq(s, 1, i - 1) \o new \o replace(Drop(s, i + Len(old) - 1), old, new)

\* ' '.join(result.split())
collapse_whitespace(s) == join(<<" ">>, SelectSeq(split(s, <<" ">>), NonEmpty))

\* a value the code takes for false: None or the empty text
Falsy(value) == value = None

\* the dictionary of variables built from the arguments
make_variables(mc_id, nation, town, cs) ==
    [CC |-> cs,
     NN |-> IF nation \in {NO_INFO_TEXT, UNAFFILIATED_TEXT} THEN None ELSE nation,
     TT |-> IF town \in {NO_INFO_TEXT, UNAFFILIATED_TEXT} THEN None ELSE town,
     MC |-> IF mc_id \in {NO_INFO_TEXT, UNKNOWN_TEXT} THEN None ELSE mc_id,
     MF |-> IF mc_id \in {NO_INFO_TEXT, UNKNOWN_TEXT} THEN None ELSE mc_id]

VariableNames == << <<"C", "C">>, <<"N", "N">>, <<"T", "T">>, <<"M", "C">>, <<"M", "F">> >>

\* variables.get(var_name)
variables_get(variables, var_name) ==
    IF var_name = <<"C", "C">> THEN variables.CC
    ELSE IF var_name = <<"N", "N">> THEN variables.NN
    ELSE IF var_name = <<"T", "T">> THEN variables.TT
    ELSE IF var_name = <<"M", "C">> THEN variables.MC
    ELSE IF var_name = <<"M", "F">> THEN variables.MF
    ELSE None

\* the end of the run of capitals that starts at i (i - 1 if there is none)
RECURSIVE capitals_end(_, _)
capitals_end(expr, i) ==
    IF i <= Len(expr) /\ IsCapital(expr[i]) THEN capitals_end(expr, i + 1) ELSE i - 1

\* the position of the next character c at or after i, 0 if none
RECURSIVE next_char(_, _, _)
next_char(expr, c, i) ==
    IF i > Len(expr) THEN 0
    ELSE IF expr[i] = c THEN i
    ELSE next_char(expr, c, i + 1)

\* the match of \{([A-Z]+)\}|"([^"]*)"|'([^']*)' that starts at i, if any
match_at(expr, i) ==
    IF expr[i] = "{"
    THEN LET j == capitals_end(expr, i + 1)
         IN  IF j > i /\ j + 1 <= Len(expr) /\ expr[j + 1] = "}"
             THEN [kind |-> "variable", text |-> SubSeq(expr, i + 1, j), end |-> j + 1]
             ELSE [kind |-> "none", text |-> None, end |-> i]
    ELSE IF IsQuote(expr[i])
    THEN LET k == next_char(expr, expr[i], i + 1)
         IN  IF k # 0
             THEN [kind |-> "literal", text |-> SubSeq(expr, i + 1, k - 1), end |-> k]
             ELSE [kind |-> "none", text |-> None, end |-> i]
    ELSE [kind |-> "none", text |-> None, end |-> i]

\* the loop over re.finditer of evaluate_expression: the parts joined, or
\* failed when a variable has no value or nothing matched
RECURSIVE compound(_, _, _, _)
compound(expr, i, variables, matched) ==
    IF i > Len(expr) THEN [failed |-> ~matched, value |-> None]
    ELSE LET m == match_at(expr, i)
         IN  IF m.kind = "none" THEN compound(expr, i + 1, variables, matched)
             ELSE IF m.kind = "variable" /\ Falsy(variables_get(variables, m.text))
             THEN [failed |-> TRUE, value |-> None]
             ELSE LET rest == compound(expr, m.end + 1, variables, TRUE)
                      value == IF m.kind = "variable"
                               THEN variables_get(variables, m.text) ELSE m.text
                  IN  IF rest.failed THEN rest
                      ELSE [failed |-> FALSE, value |-> value \o rest.value]

\* evaluate_expression: the value of one option, None when it fails
evaluate_expression(expression, variables) ==
    LET expr == strip(expression)
        n == Len(expr)
    IN  IF n > 0 /\ (\/ expr[1] = DQ /\ expr[n] = DQ
                     \/ expr[1] = SQ /\ expr[n] = SQ)
        THEN SubSeq(expr, 2, n - 1)
        ELSE IF n > 0 /\ expr[1] = "{" /\ expr[n] = "}"
        THEN variables_get(variables, SubSeq(expr, 2, n - 1))
        ELSE LET result == compound(expr, 1, variables, FALSE)
             IN  IF result.failed THEN None ELSE result.value

\* the quote state of process_fallback after the character c
fallback_quote(in_quote, c) ==
    IF ~IsQuote(c) THEN in_quote
    ELSE IF in_quote = NoQuote THEN c
    ELSE IF in_quote = c THEN NoQuote
    ELSE in_quote

\* the splitting loop of process_fallback from position i on: the options
\* and the positions of the '/' taken for separators
RECURSIVE split_options(_, _, _, _, _)
split_options(content, i, in_quote, current, options) ==
    IF i > Len(content)
    THEN [options |-> IF current # <<>> \/ options = <<>>
                      THEN Append(options, current) ELSE options,
          separators |-> {}]
    ELSE IF content[i] = "/" /\ in_quote = NoQuote
    THEN LET rest == split_options(content, i + 1, in_quote, <<>>,
                                   Append(options, current))
         IN  [rest EXCEPT !.separators = @ \cup {i}]
    ELSE split_options(content, i + 1, fallback_quote(in_quote, content[i]),
                       Append(current, content[i]), options)

\* the first option with a value, or the empty text
RECURSIVE first_value(_, _)
first_value(options, variables) ==
    IF options = <<>> THEN None
    ELSE LET result == evaluate_expression(strip(Head(options)), variables)
         IN  IF ~Falsy(result) THEN result
             ELSE first_value(Tail(options), variables)

\* process_fallback
process_fallback(content, variables) ==
    first_value(split_options(content, 1, NoQuote, <<>>, <<>>).options, variables)

\* a quote character that is not preceded by a backslash
UnescapedQuote(text, i) == IsQuote(text[i]) /\ (i = 1 \/ text[i - 1] # BACKSLASH)

\* find_and_replace_brackets, inner loop: the position of the ']' that
\* closes the group, 0 if there is none
RECURSIVE closing_bracket(_, _, _, _)
closing_bracket(text, j, depth, inner_quote) ==
    IF j > Len(text) THEN 0
    ELSE IF UnescapedQuote(text, j)
    THEN closing_bracket(text, j + 1, depth, fallback_quote(inner_quote, text[j]))
    ELSE IF text[j] = "[" /\ inner_quote = NoQuote
    THEN closing_bracket(text, j + 1, depth + 1, inner_quote)
    ELSE IF text[j] = "]" /\ inner_quote = NoQuote
    THEN IF depth = 1 THEN j ELSE closing_bracket(text, j + 1, depth - 1, inner_quote)
    ELSE closing_bracket(text, j + 1, depth, inner_quote)

\* find_and_replace_brackets from position i on: the text with the groups
\* replaced, and the groups found (positions of '[' and ']')
find_and_replace_brackets_mut(text, i, in_quote, variables) ==
    [result |-> text, groups |-> {}]
RECURSIVE find_and_replace_brackets(_, _, _, _)
find_and_replace_brackets(text, i, in_quote, variables) ==
    IF i > Len(text) THEN [result |-> <<>>, groups |-> {}]
    ELSE IF UnescapedQuote(text, i)
    THEN LET rest == find_and_replace_brackets(text, i + 1,
                         fallback_quote(in_quote, text[i]), variables)
         IN  [rest EXCEPT !.result = <<text[i]>> \o @]
    ELSE LET j == IF text[i] = "[" /\ in_quote = NoQuote
                  THEN closing_bracket(text, i + 1, 1, NoQuote) ELSE 0
         IN  IF j # 0
             THEN LET rest == find_and_replace_brackets(text, j + 1, in_quote, variables)
                      replacement == process_fallback(SubSeq(text, i + 1, j - 1), variables)
                  IN  [result |-> replacement \o rest.result,
                       groups |-> rest.groups \cup {<<i, j>>}]
             ELSE LET rest == find_and_replace_brackets(text, i + 1, in_quote, variables)
                  IN  [rest EXCEPT !.result = <<text[i]>> \o @]

\* the loop that replaces the simple variables that are left
RECURSIVE replace_variables(_, _, _)
replace_variables(result, variables, i) ==
    IF i > Len(VariableNames) THEN result
    ELSE replace_variables(
             replace(result, <<"{">> \o VariableNames[i] \o <<"}">>,
                     variables_get(variables, VariableNames[i])),
             variables, i + 1)

LEGACY == <<"{", "N", "N", "/", "T", "T", "}">>

\* apply_format_to_nickname
apply_format_to_nickname(format_string, mc_id, nation, town, cs) ==
    LET variables == make_variables(mc_id, nation, town, cs)
        replaced == find_and_replace_brackets(format_string, 1, NoQuote, variables).result
        nn_tt_value == IF ~Falsy(variables.NN) THEN variables.NN ELSE variables.TT
        legacy == replace(replaced, LEGACY, nn_tt_value)
        result == collapse_whitespace(replace_variables(legacy, variables, 1))
    IN  Take(result, MAX_LENGTH)

\* ------------------------------------------- nickname format: the calls
\* the atoms of an option: references of two variables and two literals
MaxAtoms == 2
MaxBody == 5
MaxPlain == 4
VariableAtom(name) == [kind |-> "variable", quote |-> NoQuote, text |-> name]
LiteralAtom(quote, text) == [kind |-> "literal", quote |-> quote, text |-> text]
Atoms == { VariableAtom(<<"C", "C">>), VariableAtom(<<"N", "N">>),
           LiteralAtom(DQ, <<"x">>), LiteralAtom(SQ, <<"y">>) }

\* all sequences over S of length lo to hi
SeqsOf(S, lo, hi) == UNION {[1..n -> S] : n \in lo..hi}

Options ==
    SeqsOf(Atoms, 1, MaxAtoms)
      \cup { <<LiteralAtom(DQ, <<"x">>), VariableAtom(<<"C", "C">>), LiteralAtom(SQ, <<"y">>)>>,
             <<LiteralAtom(DQ, <<"x">>), VariableAtom(<<"C", "C">>), LiteralAtom(DQ, <<"z">>)>>,
             <<VariableAtom(<<"C", "C">>), LiteralAtom(DQ, <<"x">>), VariableAtom(<<"N", "N">>)>> }

Groups ==
    SeqsOf(Options, 1, 2)
      \cup { <<<<a>>, <<b>>, <<LiteralAtom(DQ, <<"G">>)>>>> : a \in Atoms, b \in Atoms }

\* the text of an atom, of an option and of a group
RenderAtom(atom) ==
    IF atom.kind = "variable" THEN <<"{">> \o atom.text \o <<"}">>
    ELSE <<atom.quote>> \o atom.text \o <<atom.quote>>

RECURSIVE RenderOption(_)
RenderOption(option) ==
    IF option = <<>> THEN <<>>
    ELSE RenderAtom(Head(option)) \o RenderOption(Tail(option))

RenderGroup(group) ==
    <<"[">> \o join(<<"/">>, [i \in 1..Len(group) |-> RenderOption(group[i])])
            \o <<"]">>

\* templates that are one group around any characters, and any characters
GroupBodies == SeqsOf({"/", DQ, SQ, BACKSLASH, "a"}, 0, MaxBody)
PlainTemplates == SeqsOf({"[", "]", "/", DQ, BACKSLASH, "a"}, 1, MaxPlain)

CallsignValues == {None, <<"c">>}
NationValues == {None, <<"n">>, NO_INFO_TEXT}

FormatCall(format_string, group, nation, cs) ==
    [fn |-> "apply_format_to_nickname", format_string |-> format_string,
     group |-> group, mc_id |-> <<"m">>, nation |-> nation, town |-> None,
     callsign |-> cs, done |-> FALSE, result |-> None]

FormatCalls ==
    { FormatCall(RenderGroup(group), group, nation, cs) :
         group \in Groups, nation \in NationValues, cs \in CallsignValues }
    \cup { FormatCall(<<"[">> \o body \o <<"]">>, <<>>, <<"n">>, <<"c">>) :
              body \in GroupBodies }
    \cup { FormatCall(template, <<>>, <<"n">>, <<"c">>) : template \in PlainTemplates }

InitFormat ==
    /\ AtRest
    /\ call \in FormatCalls

\* a nickname is rendered from the format of a role
ApplyFormat ==
    /\ call.fn = "apply_format_to_nickname"
    /\ ~call.done
    /\ call' = [call EXCEPT !.done = TRUE,
                  !.result = apply_format_to_nickname(call.format_string, call.mc_id,
                                 call.nation, call.town, call.callsign)]
    /\ UNCHANGED <<queue, retry_counts, gov, tick, run, platform, db_users,
                   env, slow>>

NextFormat == ApplyFormat

SpecFormat == InitFormat /\ [][NextFormat]_vars

\* ------------------------------------------ nickname format properties
Applied == call.fn = "apply_format_to_nickname" /\ call.done
CallVariables == make_variables(call.mc_id, call.nation, call.town, call.callsign)

\* the value of an atom, and whether an option references a variable
\* without a value
AtomValue(atom) ==
    IF atom.kind = "variable" THEN variables_get(CallVariables, atom.text)
    ELSE atom.text

ReferencesEmpty(option) ==
    \E i \in 1..Len(option) :
        option[i].kind = "variable" /\ AtomValue(option[i]) = None

\* the values of the atoms of an option, in order
RECURSIVE Concatenation(_)
Concatenation(option) ==
    IF option = <<>> THEN <<>>
    ELSE AtomValue(Head(option)) \o Concatenation(Tail(option))

\* the value of the first option that does not fail and is not empty
RECURSIVE FirstNonEmpty(_)
FirstNonEmpty(group) ==
    IF group = <<>> THEN <<>>
    ELSE IF ~ReferencesEmpty(Head(group)) /\ Concatenation(Head(group)) # <<>>
    THEN Concatenation(Head(group))
    ELSE FirstNonEmpty(Tail(group))

\* C34: a fallback group [e1/.../en] evaluates to the value of the first
\* option, left to right, that references no empty variable and whose value
\* is not empty; if every option fails the group yields the empty text
C34_FirstNonEmpty ==
    (Applied /\ call.group # <<>>) => call.result = FirstNonEmpty(call.group)

\* C37: inside a fallback group an option of several atoms, all of whose
\* variables have a value, evaluates to the concatenation of the values of
\* its atoms in order, whatever atom it starts and ends with
C37_Concatenation ==
    (/\ Applied
     /\ Len(call.group) = 1
     /\ Len(call.group[1]) >= 2
     /\ ~ReferencesEmpty(call.group[1]))
        => call.result = Concatenation(call.group[1])

\* the groups the bracket scanner found in the template of the call
FoundGroups ==
    find_and_replace_brackets(call.format_string, 1, NoQuote, CallVariables).groups

\* the positions of the template taken for a group bracket or for an
\* option separator
Structural ==
    UNION { {g[1], g[2]}
              \cup { g[1] + p :
                       p \in split_options(SubSeq(call.format_string, g[1] + 1, g[2] - 1),
                                           1, NoQuote, <<>>, <<>>).separators }
            : g \in FoundGroups }

\* the quote that is open after the first n characters of text; with
\* escapes, a quote character after a backslash neither opens nor closes
RECURSIVE QuoteState(_, _, _)
QuoteState(text, n, escapes) ==
    IF n = 0 THEN NoQuote
    ELSE LET before == QuoteState(text, n - 1, escapes)
         IN  IF IsQuote(text[n]) /\ (~escapes \/ UnescapedQuote(text, n))
             THEN fallback_quote(before, text[n])
             ELSE before

InOpenQuote(p, escapes) == QuoteState(call.format_string, p - 1, escapes) # NoQuote

\* C35: a '/', '[' or ']' inside an open quoted literal is never taken for
\* an option separator or a group bracket, inside or outside a group,
\* whether or not a backslash is read as escaping a quote character
C35_QuotedDelimiters ==
    Applied =>
        \E escapes \in BOOLEAN :
            \A p \in Structural : ~InOpenQuote(p, escapes)

\* the same for templates without a backslash
QuotedDelimitersWithoutBackslash ==
    (Applied /\ \A i \in 1..Len(call.format_string) : call.format_string[i] # BACKSLASH)
        => \A p \in Structural : ~InOpenQuote(p, FALSE)

\* C36: the profile lookup never follows the identity lookup without the
\* inter-step delay, and when the processing of a subject is over and
\* another subject of the batch is left, the inter-subject delay elapses
\* before the next one is begun, whatever the outcome of the first
C36_DelaysElapse ==
    [][/\ \A r \in Runners :
             (run[r].pc = "id_wait" /\ run'[r].pc # "id_wait")
                 => run'[r].pc # "prof_wait"
       /\ (tick_pc = "running" /\ tick_pc' # "running"
             /\ idx' <= Len(processed_users))
                 => tick_pc' = "sleep10"]_vars

\* C38: a subject put back because the governor became active in the middle
\* of its batch is in the queue afterwards, no lookup was started for it,
\* its retry count is what it was and no report was sent, however many
\* retries it has counted before
C38_PutBackFree ==
    [][(tick_pc = "batch" /\ tick_pc' = "finish") =>
          LET user_id == processed_users[idx]
          IN  /\ \E k \in 1..Len(queue') : queue'[k] = user_id
              /\ retry_get(retry_counts', user_id) = retry_get(retry_counts, user_id)
              /\ DOMAIN retry_counts' = DOMAIN retry_counts
              /\ run'["loop"] = IdleRun]_vars

\* a subject one throttle answer away from exhaustion was put back in the
\* middle of a batch and still has its retries
C38_Witness ==
    /\ tick_pc = "finish"
    /\ idx <= Len(processed_users)
    /\ InQueue(processed_users[idx])
    /\ retry_get(retry_counts, processed_users[idx]) = MAX_RETRY_COUNT - 1

\* ------------------------------------------------- draining the queue
\* the queues the external adds have left behind when they stop
RECURSIVE Distinct(_)
Distinct(q) ==
    \/ q = <<>>
    \/ /\ \A k \in 2..Len(q) : q[k] # Head(q)
       /\ Distinct(Tail(q))

LeftQueues == {q \in SeqsOf(Subjects, 1, NumSubjects) : Distinct(q)}

InitDrain ==
    /\ queue \in LeftQueues
    /\ processing = FALSE
    /\ rate_limit_detected = FALSE
    /\ rate_limit_until = NoTime
    /\ retry_counts = <<>>
    /\ tick_pc = "idle"
    /\ processed_users = <<>>
    /\ idx = 1
    /\ queue_size_before = 0
    /\ run = [r \in Runners |-> IdleRun]
    /\ roles = [u \in Subjects |-> {}]
    /\ nick = [u \in Subjects |-> NoNick]
    /\ nation_roles = {}
    /\ db_users = {}
    /\ exceptions = {}
    /\ members = Subjects
    /\ clock = [day |-> 0, hour |-> 0, minute |-> 0]
    /\ SchedulerStarted
    /\ call = NoCall
    /\ callsign = IdleCallsign
    /\ status = NoStatus

\* no external adds: time passes and the fast loop ticks; the upstream
\* answers as it likes, with a throttle response every time if it likes
NextDrain ==
    \/ AdvanceTime
    \/ FastLoop

\* the clock advances, queue_processor_loop ticks every minute, and every
\* lookup is answered or times out
SpecDrain ==
    /\ InitDrain
    /\ [][NextDrain]_vars
    /\ WF_vars(AdvanceTime)
    /\ WF_vars(FastLoop)

\* C39: once the external adds have stopped, the queue becomes empty and
\* stays empty, whatever the upstream answers
C39_Drains == <>[](queue = <<>>)

\* the last subject left was dropped after throttle answers had used up
\* its retries
C39_Witness ==
    /\ queue = <<>>
    /\ tick_pc = "running"
    /\ run["loop"].pc = "exhausted"
    /\ rate_limit_detected

\* ------------------------------------------------------ exempt subjects
\* the exemption list changes while members join and leave, subjects are
\* enqueued by command and in bulk, and the fast loop runs against an
\* upstream that may throttle
NextExempt ==
    \/ AdvanceTime
    \/ \E u \in ExemptCandidates : AddException(u)
    \/ \E u \in ExemptCandidates : RemoveException(u)
    \/ \E u \in LeaveCandidates : MemberJoin(u)
    \/ \E u \in LeaveCandidates : MemberLeave(u)
    \/ \E u \in AddCandidates : CommandAdd(u)
    \/ BulkEnqueue
    \/ FastLoop

SpecExempt == Init /\ [][NextExempt]_vars

\* the subject the for loop of the tick has at hand
AtHand == processed_users[idx]

\* C40: a subject that is exempt when the loop takes it up is not looked
\* up, its roles and nickname stay as they are and it is not put into the
\* queue again; the join event and the bulk enqueue never put an exempt
\* subject into the queue
C40_ExemptUntouched ==
    [][/\ (BatchStep /\ AtHand \in exceptions) =>
             /\ run'["loop"].pc \notin Waits
             /\ roles'[AtHand] = roles[AtHand]
             /\ nick'[AtHand] = nick[AtHand]
             /\ InQueue(AtHand)' => InQueue(AtHand)
       /\ \A r \in Runners :
             (run[r].pc = "skipped" /\ run'[r] # run[r]) =>
                 /\ run'[r] = IdleRun
                 /\ UNCHANGED <<queue, platform>>
       /\ ((\E u \in LeaveCandidates : MemberJoin(u)) \/ BulkEnqueue) =>
             \A u \in exceptions : InQueue(u)' => InQueue(u)]_vars

\* C40 amended: a subject that is exempt when the loop takes it up is not
\* looked up and its roles and nickname stay as they are; it is put into
\* the queue again only by the governor check in the middle of a batch,
\* before it is handed to process_single_user, which skips it without
\* enqueueing it; the join event and the bulk enqueue never put an exempt
\* subject into the queue
C40_ExemptSkipped ==
    [][/\ (BatchStep /\ AtHand \in exceptions) =>
             /\ run'["loop"].pc \notin Waits
             /\ roles'[AtHand] = roles[AtHand]
             /\ nick'[AtHand] = nick[AtHand]
             /\ (InQueue(AtHand)' /\ ~InQueue(AtHand)) =>
                   /\ is_rate_limited(rate_limit_detected, rate_limit_until, now)
                   /\ run'["loop"] = IdleRun
       /\ \A r \in Runners :
             (run[r].pc = "skipped" /\ run'[r] # run[r]) =>
                 /\ run'[r] = IdleRun
                 /\ UNCHANGED <<queue, platform>>
       /\ ((\E u \in LeaveCandidates : MemberJoin(u)) \/ BulkEnqueue) =>
             \A u \in exceptions : InQueue(u)' => InQueue(u)]_vars

\* an exempt subject was dequeued and skipped by process_single_user, and
\* is not in the queue
C40_Witness ==
    /\ tick_pc = "running"
    /\ run["loop"].pc = "skipped"
    /\ run["loop"].user \in exceptions
    /\ ~InQueue(run["loop"].user)

====
